---- MODULE Spec2Model ----
(***************************************************************************)
(* Model of the APNG encoder of setanarut/apng (writer.go, current         *)
(* version): the chunk writer, the single-image chunk parser and the       *)
(* concurrent assembly performed by EncodeAll.                             *)
(***************************************************************************)
EXTENDS Integers, Sequences, FiniteSets, TLC

\* ------------------------------------------------------------------------
\* Bounds of the model
\* ------------------------------------------------------------------------
MaxFrames == 2
\* the longest list of chunks in a stream given to the parser
MaxChunks == 3
\* the most bytes cut from the end of such a stream
MaxCut == 6
\* the most writeChunk calls made in a row on one encoder
MaxCalls == 3

\* ------------------------------------------------------------------------
\* Bytes, big-endian integers, CRC-32
\* ------------------------------------------------------------------------
\* Bind(v, F) is F(v) with v evaluated exactly once
Bind(v, F(_)) == CHOOSE r \in { F(val) : val \in {v} } : TRUE

\* exclusive or of two bits, of two 4-bit values (from a table) and of two
\* 16-bit values
BitXor(p, q) == (p + q) % 2

NibbleXor ==
  [p \in 0..15 |-> [q \in 0..15 |->
      BitXor(p % 2, q % 2)
      + 2 * BitXor((p \div 2) % 2, (q \div 2) % 2)
      + 4 * BitXor((p \div 4) % 2, (q \div 4) % 2)
      + 8 * BitXor(p \div 8, q \div 8)]]

Xor16(p, q) ==
  NibbleXor[p % 16][q % 16]
  + 16 * NibbleXor[(p \div 16) % 16][(q \div 16) % 16]
  + 256 * NibbleXor[(p \div 256) % 16][(q \div 256) % 16]
  + 4096 * NibbleXor[p \div 4096][q \div 4096]

\* writeUint16: big-endian encoding of a 16-bit value
writeUint16(u) == << (u \div 256) % 256, u % 256 >>

\* writeUint32: big-endian encoding of a 32-bit value
writeUint32(u) ==
  << (u \div 16777216) % 256, (u \div 65536) % 256, (u \div 256) % 256, u % 256 >>

\* binary.BigEndian.Uint32.  A value of 2^31 or more stands as 2^31 - 1: it is
\* only ever compared with the number of bytes a stream holds, which is smaller.
Uint32(b) ==
  IF b[1] >= 128 THEN 2147483647
  ELSE b[1] * 16777216 + b[2] * 65536 + b[3] * 256 + b[4]

\* A CRC register is kept as its two 16-bit halves <<high, low>>.
\* one bit of the table construction: shift right, conditionally xor the
\* reversed IEEE polynomial 0xEDB88320
crcBit(c) ==
  LET sh == << c[1] \div 2, (c[2] \div 2) + 32768 * (c[1] % 2) >>
  IN  IF c[2] % 2 = 1 THEN << Xor16(60856, sh[1]), Xor16(33568, sh[2]) >> ELSE sh

\* crc32.IEEETable
crcTable ==
  [k \in 0..255 |-> crcBit(crcBit(crcBit(crcBit(crcBit(crcBit(crcBit(crcBit(<<0, k>>))))))))]

\* the register after one more byte
crcByte(crc, byte) ==
  LET t  == crcTable[Xor16(crc[2] % 256, byte)]
      sh == << crc[1] \div 256, (crc[2] \div 256) + 256 * (crc[1] % 256) >>
  IN  << Xor16(t[1], sh[1]), Xor16(t[2], sh[2]) >>

RECURSIVE crcUpdate(_, _, _)
crcUpdate(crc, b, k) ==
  IF k > Len(b) THEN crc
  ELSE Bind(crcByte(crc, b[k]), LAMBDA nxt : crcUpdate(nxt, b, k + 1))

\* crc32.NewIEEE(); Write(b); Sum32(), as the four big-endian bytes of the sum
crc32(b) ==
  Bind(b, LAMBDA data :
    Bind(crcUpdate(<<65535, 65535>>, data, 1), LAMBDA c :
      writeUint16(Xor16(c[1], 65535)) \o writeUint16(Xor16(c[2], 65535))))

TagIHDR == <<73, 72, 68, 82>>
TagPLTE == <<80, 76, 84, 69>>
TagtRNS == <<116, 82, 78, 83>>
TagIDAT == <<73, 68, 65, 84>>
TagIEND == <<73, 69, 78, 68>>
TagacTL == <<97, 99, 84, 76>>
TagfcTL == <<102, 99, 84, 76>>
TagfdAT == <<102, 100, 65, 84>>


\* ------------------------------------------------------------------------
\* Errors
\* ------------------------------------------------------------------------
Err(kind, msg, frame) == [kind |-> kind, msg |-> msg, frame |-> frame]
NoErr == Err("nil", "", -1)
ErrEOF == Err("io", "EOF", -1)
ErrUnexpectedEOF == Err("io", "unexpected EOF", -1)
ErrPanic == Err("panic", "slice bounds out of range", -1)
ErrWrite == Err("write", "write failed", -1)
ErrTooLarge == Err("chunk", "apng: chunk is too large", -1)
ErrNoImage == Err("validation", "apng: need at least one image", -1)
ErrDelays == Err("validation", "apng: mismatched image and delay lengths", -1)
ErrDisposals == Err("validation", "apng: mismatch image and disposal lengths", -1)
ErrRegion == Err("validation", "apng: must fullfill frame region constraints", -1)
ErrMissing(i) == Err("missing", "apng: missing frame data for index", i)

\* ------------------------------------------------------------------------
\* bytes.Buffer reads
\* ------------------------------------------------------------------------
Take(b, n) == SubSeq(b, 1, n)
Drop(b, n) == SubSeq(b, n + 1, Len(b))
Min(p, q) == IF p < q THEN p ELSE q

\* bb.Next(n): up to n bytes are consumed
Next_(bb, n) == [data |-> Take(bb, Min(n, Len(bb))), rest |-> Drop(bb, Min(n, Len(bb)))]

\* io.ReadFull(bb, buf[:n])
ReadFull(bb, n) ==
  IF n = 0 THEN [data |-> <<>>, rest |-> bb, err |-> NoErr]
  ELSE IF Len(bb) = 0 THEN [data |-> <<>>, rest |-> bb, err |-> ErrEOF]
  ELSE IF Len(bb) < n THEN [data |-> bb, rest |-> <<>>, err |-> ErrUnexpectedEOF]
  ELSE [data |-> Take(bb, n), rest |-> Drop(bb, n), err |-> NoErr]

\* ------------------------------------------------------------------------
\* The single-image chunk parser
\* ------------------------------------------------------------------------
dsStart == 0
dsSeenIHDR == 1
dsSeenPLTE == 2
dsSeentRNS == 3
dsSeenIDAT == 4
dsSeenIEND == 5

\* len(chunkFetcher.tmp)
TmpSize == 768

\* len(pngHeader)
SigLen == 8

\* new(pngChunk)
NewPngChunk == [ihdr |-> <<>>, idats |-> <<>>, plte |-> <<>>, trns |-> <<>>]

\* &chunkFetcher{bb: bb, stage: dsStart, pc: pc}; hasPc is FALSE for a nil pc
NewFetcher(bb, hasPc) ==
  [bb |-> bb, stage |-> dsStart, pc |-> NewPngChunk, hasPc |-> hasPc,
   plte |-> <<>>, trns |-> <<>>]

parseIHDR(c, length) ==
  IF length > TmpSize THEN [c |-> c, err |-> ErrPanic]
  ELSE LET r == ReadFull(c.bb, length)
       IN  IF r.err # NoErr
           THEN [c |-> [c EXCEPT !.bb = r.rest], err |-> r.err]
           ELSE [c |-> [c EXCEPT !.bb = r.rest, !.pc.ihdr = r.data], err |-> NoErr]

\* mutant of parseIDAT: the payload is put in front of the earlier ones
parseIDATInFront(c, length) ==
  LET r == Next_(c.bb, length)
  IN  IF Len(r.data) < length
      THEN [c |-> [c EXCEPT !.bb = r.rest], err |-> ErrEOF]
      ELSE [c |-> [c EXCEPT !.bb = r.rest, !.pc.idats = <<r.data>> \o @],
            err |-> NoErr]

parseIDAT(c, length) ==
  LET r == Next_(c.bb, length)
  IN  IF Len(r.data) < length
      THEN [c |-> [c EXCEPT !.bb = r.rest], err |-> ErrEOF]
      ELSE [c |-> [c EXCEPT !.bb = r.rest, !.pc.idats = Append(@, r.data)],
            err |-> NoErr]

parsePLTE(c, length) ==
  LET r == ReadFull(c.bb, length)
  IN  IF r.err # NoErr
      THEN [c |-> [c EXCEPT !.bb = r.rest], err |-> r.err]
      ELSE [c |-> [c EXCEPT !.bb = r.rest,
                            !.plte = writeUint32(length) \o TagPLTE \o r.data,
                            !.pc.plte = IF c.hasPc THEN r.data ELSE @],
            err |-> NoErr]

parsetRNS(c, length) ==
  LET r == ReadFull(c.bb, length)
  IN  IF r.err # NoErr
      THEN [c |-> [c EXCEPT !.bb = r.rest], err |-> r.err]
      ELSE [c |-> [c EXCEPT !.bb = r.rest,
                            !.trns = writeUint32(length) \o TagtRNS \o r.data,
                            !.pc.trns = IF c.hasPc THEN r.data ELSE @],
            err |-> NoErr]

\* the trailing c.bb.Next(4) of both chunk parsers
SkipCRC(r) == [c |-> [r.c EXCEPT !.bb = Next_(@, 4).rest], err |-> r.err]

\* mutant of parsePNGChunk: the payload of a chunk with another tag is left in
\* the buffer
parsePNGChunkKeepsPayload(c) ==
  LET h == ReadFull(c.bb, 8)
  IN  IF h.err # NoErr THEN [c |-> [c EXCEPT !.bb = h.rest], err |-> h.err]
      ELSE
        LET length == Uint32(Take(h.data, 4))
            tag    == SubSeq(h.data, 5, 8)
            c1     == [c EXCEPT !.bb = h.rest]
            r == CASE tag = TagIHDR -> parseIHDR([c1 EXCEPT !.stage = dsSeenIHDR], length)
                   [] tag = TagPLTE -> parsePLTE([c1 EXCEPT !.stage = dsSeenPLTE], length)
                   [] tag = TagtRNS -> parsetRNS([c1 EXCEPT !.stage = dsSeentRNS], length)
                   [] tag = TagIDAT -> parseIDAT([c1 EXCEPT !.stage = dsSeenIDAT], length)
                   [] tag = TagIEND -> [c |-> [c1 EXCEPT !.stage = dsSeenIEND], err |-> NoErr]
                   [] OTHER -> [c |-> c1, err |-> NoErr]
        IN  Bind(r, LAMBDA res : IF res.err = ErrPanic THEN res ELSE SkipCRC(res))

parsePNGChunk(c) ==
  LET h == ReadFull(c.bb, 8)
  IN  IF h.err # NoErr THEN [c |-> [c EXCEPT !.bb = h.rest], err |-> h.err]
      ELSE
        LET length == Uint32(Take(h.data, 4))
            tag    == SubSeq(h.data, 5, 8)
            c1     == [c EXCEPT !.bb = h.rest]
            r == CASE tag = TagIHDR -> parseIHDR([c1 EXCEPT !.stage = dsSeenIHDR], length)
                   [] tag = TagPLTE -> parsePLTE([c1 EXCEPT !.stage = dsSeenPLTE], length)
                   [] tag = TagtRNS -> parsetRNS([c1 EXCEPT !.stage = dsSeentRNS], length)
                   [] tag = TagIDAT -> parseIDAT([c1 EXCEPT !.stage = dsSeenIDAT], length)
                   [] tag = TagIEND -> [c |-> [c1 EXCEPT !.stage = dsSeenIEND], err |-> NoErr]
                   [] OTHER -> [c |-> [c1 EXCEPT !.bb = Next_(@, length).rest], err |-> NoErr]
        IN  Bind(r, LAMBDA res : IF res.err = ErrPanic THEN res ELSE SkipCRC(res))

parsePNGChunkWithPalette(c) ==
  LET h == ReadFull(c.bb, 8)
  IN  IF h.err # NoErr THEN [c |-> [c EXCEPT !.bb = h.rest], err |-> h.err]
      ELSE
        LET length == Uint32(Take(h.data, 4))
            tag    == SubSeq(h.data, 5, 8)
            c1     == [c EXCEPT !.bb = h.rest]
            r == CASE tag = TagIHDR ->
                        IF length > TmpSize
                        THEN [c |-> [c1 EXCEPT !.stage = dsSeenIHDR], err |-> ErrPanic]
                        ELSE LET d == ReadFull(c1.bb, length)
                             IN  [c |-> [c1 EXCEPT !.stage = dsSeenIHDR, !.bb = d.rest],
                                  err |-> d.err]
                   [] tag = TagPLTE -> parsePLTE([c1 EXCEPT !.stage = dsSeenPLTE], length)
                   [] tag = TagtRNS -> parsetRNS([c1 EXCEPT !.stage = dsSeentRNS], length)
                   [] tag = TagIDAT ->
                        [c |-> [c1 EXCEPT !.stage = dsSeenIDAT, !.bb = Next_(@, length).rest],
                         err |-> NoErr]
                   [] tag = TagIEND -> [c |-> [c1 EXCEPT !.stage = dsSeenIEND], err |-> NoErr]
                   [] OTHER -> [c |-> [c1 EXCEPT !.bb = Next_(@, length).rest], err |-> NoErr]
        IN  Bind(r, LAMBDA res : IF res.err = ErrPanic THEN res ELSE SkipCRC(res))

MapEOF(err) == IF err = ErrEOF THEN ErrUnexpectedEOF ELSE err

RECURSIVE fetchLoop(_)
fetchLoop(c) ==
  IF c.stage = dsSeenIEND THEN [pc |-> c.pc, err |-> NoErr]
  ELSE Bind(parsePNGChunk(c), LAMBDA r :
         IF r.err # NoErr THEN [pc |-> NewPngChunk, err |-> MapEOF(r.err)]
         ELSE fetchLoop(r.c))

fetchPNGChunk(bb) ==
  Bind(NewFetcher(Next_(bb, SigLen).rest, TRUE), LAMBDA c : fetchLoop(c))

RECURSIVE paletteLoop(_)
paletteLoop(c) ==
  IF c.stage = dsSeenIEND THEN [plte |-> c.plte, trns |-> c.trns, err |-> NoErr]
  ELSE Bind(parsePNGChunkWithPalette(c), LAMBDA r :
         IF r.err # NoErr THEN [plte |-> <<>>, trns |-> <<>>, err |-> MapEOF(r.err)]
         ELSE paletteLoop(r.c))

fetchPaletteChunk(bb) ==
  Bind(NewFetcher(Next_(bb, SigLen).rest, FALSE), LAMBDA c : paletteLoop(c))


\* ------------------------------------------------------------------------
\* Images and the external single-image encoder (image/png)
\* ------------------------------------------------------------------------
pngHeader == <<137, 80, 78, 71, 13, 10, 26, 10>>

Rect(x0, y0, x1, y1) == [Min |-> [X |-> x0, Y |-> y0], Max |-> [X |-> x1, Y |-> y1]]
Dx(r) == r.Max.X - r.Min.X
Dy(r) == r.Max.Y - r.Min.Y

\* one chunk as the single-image encoder frames it
MkChunk(tag, payload) ==
  writeUint32(Len(payload)) \o tag \o payload \o crc32(tag \o payload)

ColorType(model) ==
  CASE model = "RGBA" -> 6 [] model = "Gray" -> 0 [] model = "Paletted" -> 3

HeaderOf(model, r) ==
  writeUint32(Dx(r)) \o writeUint32(Dy(r)) \o <<8, ColorType(model), 0, 0, 0>>

RECURSIVE Concat(_)
Concat(ss) == IF ss = <<>> THEN <<>> ELSE Head(ss) \o Concat(Tail(ss))

\* An image: its color model, its bounds and the byte stream the
\* single-image encoder produces for it.
Image(model, r, body) ==
  [model |-> model, bounds |-> r,
   stream |-> pngHeader \o MkChunk(TagIHDR, HeaderOf(model, r)) \o body]

ImgA == Image("RGBA", Rect(0, 0, 2, 2),
              MkChunk(TagIDAT, <<10, 11>>) \o MkChunk(TagIEND, <<>>))
ImgB == Image("RGBA", Rect(1, 1, 2, 2),
              MkChunk(<<116, 69, 88, 116>>, <<7>>) \o MkChunk(TagIDAT, <<20>>)
              \o MkChunk(TagIDAT, <<21, 22>>) \o MkChunk(TagIEND, <<>>))
ImgP == Image("Paletted", Rect(0, 0, 2, 2),
              MkChunk(TagPLTE, <<1, 2, 3>>) \o MkChunk(TagtRNS, <<9>>)
              \o MkChunk(TagIDAT, <<30>>) \o MkChunk(TagIEND, <<>>))
ImgG == Image("Gray", Rect(0, 0, 3, 2),
              MkChunk(TagIDAT, <<40>>) \o MkChunk(TagIEND, <<>>))
\* an image with empty bounds: png.Encode rejects it
ImgE == Image("RGBA", Rect(0, 0, 0, 0), <<>>)
\* an image whose encoded stream is cut short inside its data chunk
ImgT == Image("RGBA", Rect(0, 0, 1, 2), Take(MkChunk(TagIDAT, <<50, 51, 52>>), 9))

\* a paletted image with empty bounds: png.Encode rejects it
ImgQ == Image("Paletted", Rect(0, 0, 0, 0), <<>>)

\* a paletted image with a palette of its own and no transparency chunk
ImgR == Image("Paletted", Rect(0, 0, 2, 2),
              MkChunk(TagPLTE, <<4, 5, 6, 7, 8, 9>>)
              \o MkChunk(TagIDAT, <<60>>) \o MkChunk(TagIEND, <<>>))

Catalog == {ImgA, ImgB, ImgP, ImgG, ImgE, ImgT, ImgQ, ImgR}

\* png.Encode(bb, img)
pngEncode(img) ==
  IF Dx(img.bounds) <= 0 \/ Dy(img.bounds) <= 0
  THEN [err |-> TRUE, bytes |-> <<>>]
  ELSE [err |-> FALSE, bytes |-> img.stream]

IsPaletted(img) == img.model = "Paletted"

\* encodePalettedImage
encodePalettedImage(img, index) ==
  LET enc == pngEncode(img)
  IN  IF enc.err
      THEN [pc |-> NewPngChunk, err |-> Err("encode", "apng: palette encoding error", index)]
      ELSE Bind(fetchPNGChunk(enc.bytes), LAMBDA r :
             [pc |-> r.pc, err |-> IF r.err = NoErr THEN NoErr
                                    ELSE [r.err EXCEPT !.frame = index]])

\* body of the per-frame goroutine up to its result: encode, then parse
Work(img, index) ==
  IF IsPaletted(img) THEN encodePalettedImage(img, index)
  ELSE LET enc == pngEncode(img)
       IN  IF enc.err
           THEN [pc |-> NewPngChunk, err |-> Err("encode", "apng: png encoding error", index)]
           ELSE Bind(fetchPNGChunk(enc.bytes), LAMBDA r :
                  [pc |-> r.pc, err |-> IF r.err = NoErr THEN NoErr
                                         ELSE [r.err EXCEPT !.frame = index]])

\* fullfillFrameRegionConstraints
fullfillFrameRegionConstraints(img) ==
  IF Len(img) = 0 THEN FALSE
  ELSE LET reference == img[1].bounds
       IN  /\ reference.Min.X >= 0 /\ reference.Min.Y >= 0
           /\ \A i \in 2..Len(img) :
                LET bounds == img[i].bounds
                IN  /\ bounds.Min.X >= 0 /\ bounds.Min.Y >= 0
                    /\ bounds.Max.X <= reference.Max.X
                    /\ bounds.Max.Y <= reference.Max.Y


\* ------------------------------------------------------------------------
\* The chunk writer.  An encoder value carries the fields of the encoder
\* struct that EncodeAll uses, the bytes the destination has accepted (out)
\* and the number of Write calls the destination still accepts before it
\* fails (left; NoLimit when it never fails).
\* ------------------------------------------------------------------------
NoLimit == -1

FitsUint32(n) == (n \div 65536) \div 65536 = 0

\* w.Write(b) on the destination
CanWrite(e) == e.left # 0
Write(e, b) == [e EXCEPT !.out = @ \o b, !.left = IF @ > 0 THEN @ - 1 ELSE @]

\* len(b), a Go int of 64 bits, as hi * 2^32 + mid * 2^16 + lo
GoLen(n) == [hi |-> 0, mid |-> n \div 65536, lo |-> n % 65536]

\* uint32(len(b)): the conversion keeps the low 32 bits
ToUint32(len) == [len EXCEPT !.hi = 0]

\* mutant of writeChunkLen: the length is truncated without the check
writeChunkLenTruncating(e, len, b, name) ==
  IF e.err # NoErr THEN e
  ELSE LET n == ToUint32(len)
       IN  IF ~CanWrite(e) THEN [e EXCEPT !.err = ErrWrite]
           ELSE LET e1 == Write(e, writeUint16(n.mid) \o writeUint16(n.lo) \o name)
                IN  IF ~CanWrite(e1) THEN [e1 EXCEPT !.err = ErrWrite]
                    ELSE LET e2 == Write(e1, b)
                         IN  IF ~CanWrite(e2) THEN [e2 EXCEPT !.err = ErrWrite]
                             ELSE Write(e2, crc32(name \o b))

\* writeChunk on a slice b whose len(b) is len
writeChunkLen(e, len, b, name) ==
  IF e.err # NoErr THEN e
  ELSE LET n == ToUint32(len)
       IN  IF n # len THEN [e EXCEPT !.err = ErrTooLarge]
           ELSE IF ~CanWrite(e) THEN [e EXCEPT !.err = ErrWrite]
           ELSE LET e1 == Write(e, writeUint16(n.mid) \o writeUint16(n.lo) \o name)
                IN  IF ~CanWrite(e1) THEN [e1 EXCEPT !.err = ErrWrite]
                    ELSE LET e2 == Write(e1, b)
                         IN  IF ~CanWrite(e2) THEN [e2 EXCEPT !.err = ErrWrite]
                             ELSE Write(e2, crc32(name \o b))

\* mutant of writeChunkBody: the CRC also covers the length field
writeChunkBodyCrcOverHeader(e, b, name) ==
  IF e.err # NoErr THEN e
  ELSE IF ~FitsUint32(Len(b)) THEN [e EXCEPT !.err = ErrTooLarge]
  ELSE IF ~CanWrite(e) THEN [e EXCEPT !.err = ErrWrite]
  ELSE LET e1 == Write(e, writeUint32(Len(b)) \o name)
       IN  IF ~CanWrite(e1) THEN [e1 EXCEPT !.err = ErrWrite]
           ELSE LET e2 == Write(e1, b)
                IN  IF ~CanWrite(e2) THEN [e2 EXCEPT !.err = ErrWrite]
                    ELSE Write(e2, crc32(writeUint32(Len(b)) \o name \o b))

\* mutant of writeChunkBody: a stored error does not stop the write
writeChunkBodyNotSticky(e, b, name) ==
  IF ~FitsUint32(Len(b)) THEN [e EXCEPT !.err = ErrTooLarge]
  ELSE IF ~CanWrite(e) THEN [e EXCEPT !.err = ErrWrite]
  ELSE LET e1 == Write(e, writeUint32(Len(b)) \o name)
       IN  IF ~CanWrite(e1) THEN [e1 EXCEPT !.err = ErrWrite]
           ELSE LET e2 == Write(e1, b)
                IN  IF ~CanWrite(e2) THEN [e2 EXCEPT !.err = ErrWrite]
                    ELSE [Write(e2, crc32(name \o b)) EXCEPT !.err = NoErr]

\* writeChunk on a slice held in full: len(b) is the number of its bytes
writeChunkBody(e, b, name) == writeChunkLen(e, GoLen(Len(b)), b, name)

writeChunk(e, b, name) ==
  Bind(e, LAMBDA ev : Bind(b, LAMBDA bv : writeChunkBody(ev, bv, name)))

writeIHDR(e) == Bind(e, LAMBDA ev : writeChunk(ev, ev.ihdr, TagIHDR))

\* mutant of writeacTL: the loop count is written where the frame count belongs
writeacTLSwapped(e, a) ==
  writeChunk(e, writeUint32(a.LoopCount) \o writeUint32(Len(a.Images)), TagacTL)

writeacTL(e, a) ==
  writeChunk(e, writeUint32(Len(a.Images)) \o writeUint32(a.LoopCount), TagacTL)

\* mutant of writefcTLBody: the dispose-op byte is always 0
writefcTLBodyNoDispose(e, a, frameIndex) ==
  LET bounds == a.Images[frameIndex + 1].bounds
      tmp == writeUint32(e.seqNum)
             \o writeUint32(bounds.Max.X - bounds.Min.X)
             \o writeUint32(bounds.Max.Y - bounds.Min.Y)
             \o writeUint32(bounds.Min.X)
             \o writeUint32(bounds.Min.Y)
             \o writeUint16(a.Delays[frameIndex + 1])
             \o writeUint16(100)
             \o << 0 >>
             \o << 0 >>
  IN  [writeChunk(e, tmp, TagfcTL) EXCEPT !.seqNum = @ + 1]

writefcTLBody(e, a, frameIndex) ==
  LET bounds == a.Images[frameIndex + 1].bounds
      tmp == writeUint32(e.seqNum)
             \o writeUint32(bounds.Max.X - bounds.Min.X)
             \o writeUint32(bounds.Max.Y - bounds.Min.Y)
             \o writeUint32(bounds.Min.X)
             \o writeUint32(bounds.Min.Y)
             \o writeUint16(a.Delays[frameIndex + 1])
             \o writeUint16(100)
             \o << IF a.Disposals.isNil THEN 0 ELSE a.Disposals.v[frameIndex + 1] >>
             \o << 0 >>
  IN  [writeChunk(e, tmp, TagfcTL) EXCEPT !.seqNum = @ + 1]

writefcTL(e, a, frameIndex) == Bind(e, LAMBDA ev : writefcTLBody(ev, a, frameIndex))

\* mutant of writeIDATsFrom: every IDAT consumes a sequence number
RECURSIVE writeIDATsFromCounting(_, _)
writeIDATsFromCounting(e, k) ==
  Bind(e, LAMBDA ev :
    IF k > Len(ev.idats) THEN ev
    ELSE writeIDATsFromCounting(
           [writeChunk(ev, ev.idats[k], TagIDAT) EXCEPT !.seqNum = @ + 1], k + 1))

RECURSIVE writeIDATsFrom(_, _)
writeIDATsFrom(e, k) ==
  Bind(e, LAMBDA ev :
    IF k > Len(ev.idats) THEN ev
    ELSE writeIDATsFrom(writeChunk(ev, ev.idats[k], TagIDAT), k + 1))

writeIDATs(e) == writeIDATsFrom(e, 1)

RECURSIVE writefdATsFrom(_, _)
writefdATsFrom(e, k) ==
  Bind(e, LAMBDA ev :
    IF k > Len(ev.idats) THEN ev
    ELSE LET fdat == writeUint32(ev.seqNum) \o ev.idats[k]
         IN  writefdATsFrom([writeChunk(ev, fdat, TagfdAT) EXCEPT !.seqNum = @ + 1], k + 1))

writefdATs(e) == writefdATsFrom(e, 1)

writeIEND(e) == writeChunk(e, <<>>, TagIEND)


\* ------------------------------------------------------------------------
\* EncodeAll
\* ------------------------------------------------------------------------
VARIABLES
  caller,           \* the function the program entered through, its arguments and,
                    \* once it has returned, its results
  a,                \* the *APNG argument: Images, Delays, Disposals, LoopCount
  pc,               \* position of EncodeAll: start, drain, first, loop, returned, crashed
  ret,              \* the error EncodeAll returned (NoErr for nil)
  enc,              \* the encoder e: seqNum, ihdr, idats, err
  out,              \* the bytes the destination w has accepted
  hasFirstPaletted, \* local of EncodeAll
  globalPLTE,       \* local of EncodeAll (<<>> for nil)
  globalTRNS,       \* local of EncodeAll (<<>> for nil)
  wpc,              \* position of each per-frame goroutine, by frame index
  mutex,            \* holder of the mutex, Free when unlocked
  wg,               \* the WaitGroup counter
  frameDataChan,    \* buffered channel contents
  closed,           \* frameDataChan has been closed
  frameDataMap,     \* results keyed by frame index
  i,                \* loop index of the ordered write
  arrived,          \* history: frame indices in the order the range loop received them
  recorded          \* history: frame indices in the order their goroutines entered
                    \* the critical section of a failure path

vars == << caller, a, pc, ret, enc, out, hasFirstPaletted, globalPLTE, globalTRNS,
           wpc, mutex, wg, frameDataChan, closed, frameDataMap, i,
           arrived, recorded >>

Free == -1

SeqsUpTo(S, n) == UNION { [1..m -> S] : m \in 0..n }

NilSlice == [isNil |-> TRUE, v |-> <<>>]
Slice(v) == [isNil |-> FALSE, v |-> v]

DelayOf(k) == 10 + k
DisposalOf(k) == k % 3

\* the calls of EncodeAll the model explores: every list of images, every
\* length of Delays and of Disposals, a nil Disposals with LoopCount 0 and a
\* non-nil one with LoopCount 2
Inputs ==
  { [Images |-> imgs, Delays |-> ds, Disposals |-> dp,
     LoopCount |-> IF dp.isNil THEN 0 ELSE 2] :
      imgs \in SeqsUpTo(Catalog, MaxFrames),
      ds \in { [k \in 1..m |-> DelayOf(k)] : m \in 0..MaxFrames },
      dp \in {NilSlice} \cup { Slice([k \in 1..m |-> DisposalOf(k)]) : m \in 0..MaxFrames } }

N == Len(a.Images)
Frames == 0..(N - 1)

NewEncoder == [seqNum |-> 0, ihdr |-> <<>>, idats |-> <<>>, err |-> NoErr]

\* a direct call of EncodeAll
Direct == [fn |-> "EncodeAll", images |-> <<>>, delay |-> 0, at |-> "called",
           err |-> NoErr, bytes |-> NilSlice]

\* the locals of EncodeAll before it runs
NotStarted ==
  /\ ret = NoErr
  /\ enc = NewEncoder
  /\ out = <<>>
  /\ hasFirstPaletted = FALSE
  /\ globalPLTE = <<>>
  /\ globalTRNS = <<>>
  /\ wpc = [k \in {} |-> "none"]
  /\ mutex = Free
  /\ wg = 0
  /\ frameDataChan = <<>>
  /\ closed = FALSE
  /\ frameDataMap = [k \in {} |-> 0]
  /\ i = 0
  /\ arrived = <<>>
  /\ recorded = <<>>

Init ==
  /\ caller = Direct
  /\ a \in Inputs
  /\ pc = "start"
  /\ NotStarted

\* return err
Return(err) == pc' = "returned" /\ ret' = err

\* the encoder together with its destination, which accepts `left` more writes
WithWriter(left) == [seqNum |-> enc.seqNum, ihdr |-> enc.ihdr, idats |-> enc.idats,
                     err |-> enc.err, out |-> out, left |-> left]
Encoder(e) == [seqNum |-> e.seqNum, ihdr |-> e.ihdr, idats |-> e.idats, err |-> e.err]

\* the destination fails at none of the next `writes` Write calls, or at one of
\* them: the header, payload or CRC write of the first chunk, or the last write;
\* the bytes.Buffer of APNGBytes never fails
Lefts(writes) ==
  IF enc.err # NoErr \/ caller.fn = "APNGBytes" THEN {NoLimit}
  ELSE {NoLimit} \cup ({0, 1, 2, writes - 1} \cap 0..(writes - 1))

\* mutant of Validate: the disposal count is not checked
ValidateNoDisposals(ap) ==
  IF Len(ap.Images) = 0 THEN ErrNoImage
  ELSE IF Len(ap.Images) # Len(ap.Delays) THEN ErrDelays
  ELSE IF ~fullfillFrameRegionConstraints(ap.Images) THEN ErrRegion
  ELSE NoErr

\* validation of the arguments
Validate(ap) ==
  IF Len(ap.Images) = 0 THEN ErrNoImage
  ELSE IF Len(ap.Images) # Len(ap.Delays) THEN ErrDelays
  ELSE IF ~ap.Disposals.isNil /\ Len(ap.Images) # Len(ap.Disposals.v) THEN ErrDisposals
  ELSE IF ~fullfillFrameRegionConstraints(ap.Images) THEN ErrRegion
  ELSE NoErr

\* the palette pre-pass on the first image
PrePass(ap) ==
  IF ~IsPaletted(ap.Images[1])
  THEN [has |-> FALSE, plte |-> <<>>, trns |-> <<>>, err |-> NoErr]
  ELSE LET e0 == pngEncode(ap.Images[1])
       IN  IF e0.err
           THEN [has |-> TRUE, plte |-> <<>>, trns |-> <<>>,
                 err |-> Err("encode", "apng: png encoding error", -1)]
           ELSE Bind(fetchPaletteChunk(e0.bytes), LAMBDA r :
                  [has |-> TRUE, plte |-> r.plte, trns |-> r.trns, err |-> r.err])

\* EncodeAll from its entry to the start of the goroutines: validation,
\* signature write, palette pre-pass, fan-out
Call ==
  /\ pc = "start"
  /\ IF Validate(a) # NoErr
     THEN /\ Return(Validate(a))
          /\ UNCHANGED << caller, a, enc, out, hasFirstPaletted, globalPLTE, globalTRNS,
                          wpc, mutex, wg, frameDataChan, closed, frameDataMap, i,
                          arrived, recorded >>
     ELSE \E left \in Lefts(1) :
          \E e1 \in { IF left = 0 THEN [WithWriter(left) EXCEPT !.err = ErrWrite]
                      ELSE Write(WithWriter(left), pngHeader) },
             pp \in { PrePass(a) } :
                /\ enc' = Encoder(e1)
                /\ out' = e1.out
                /\ hasFirstPaletted' = pp.has
                /\ IF pp.err # NoErr
                   THEN /\ IF pp.err = ErrPanic
                           THEN pc' = "crashed" /\ ret' = ret
                           ELSE Return(pp.err)
                        /\ UNCHANGED << globalPLTE, globalTRNS, wpc, wg >>
                   ELSE /\ globalPLTE' = pp.plte
                        /\ globalTRNS' = pp.trns
                        /\ wpc' = [k \in Frames |-> "run"]
                        /\ wg' = N
                        /\ pc' = "drain"
                        /\ ret' = ret
                /\ UNCHANGED << caller, a, mutex, frameDataChan, closed, frameDataMap, i,
                                arrived, recorded >>

\* the value a goroutine sends for frame `index`
FrameData(index) ==
  Bind(Work(a.Images[index + 1], index), LAMBDA r :
    [index |-> index, ihdr |-> r.pc.ihdr, idats |-> r.pc.idats,
     isPaletted |-> IsPaletted(a.Images[index + 1])])

\* goroutine of frame k: encode and parse its image
WEncode(k) ==
  /\ pc = "drain"
  /\ wpc[k] = "run"
  /\ \E r \in { Work(a.Images[k + 1], k) } :
         IF r.err = ErrPanic \/ r.err = [ErrPanic EXCEPT !.frame = k]
         THEN /\ pc' = "crashed"
              /\ wpc' = [wpc EXCEPT ![k] = "panic"]
         ELSE /\ pc' = pc
              /\ wpc' = [wpc EXCEPT ![k] = IF r.err # NoErr THEN "lock" ELSE "send"]
  /\ UNCHANGED << caller, a, ret, enc, out, hasFirstPaletted, globalPLTE, globalTRNS,
                  mutex, wg, frameDataChan, closed, frameDataMap, i, arrived, recorded >>

\* mutant of WLock: the goroutine enters the critical section without waiting
\* for the mutex
WLockUnguarded(k) ==
  /\ pc = "drain"
  /\ wpc[k] = "lock"
  /\ mutex' = k
  /\ wpc' = [wpc EXCEPT ![k] = "crit"]
  /\ UNCHANGED << caller, a, pc, ret, enc, out, hasFirstPaletted, globalPLTE, globalTRNS,
                  wg, frameDataChan, closed, frameDataMap, i, arrived, recorded >>

\* goroutine of frame k: mutex.Lock() on a failure path
WLock(k) ==
  /\ pc = "drain"
  /\ wpc[k] = "lock"
  /\ mutex = Free
  /\ mutex' = k
  /\ wpc' = [wpc EXCEPT ![k] = "crit"]
  /\ UNCHANGED << caller, a, pc, ret, enc, out, hasFirstPaletted, globalPLTE, globalTRNS,
                  wg, frameDataChan, closed, frameDataMap, i, arrived, recorded >>

\* mutant of Record: the last failure overwrites the slot
RecordLast(slot, err) == err

\* the error slot after the goroutine of frame k has tried to record err
Record(slot, err) == IF slot = NoErr THEN err ELSE slot

\* goroutine of frame k: if e.err == nil { e.err = err }; mutex.Unlock(); return
WRecord(k) ==
  /\ pc = "drain"
  /\ wpc[k] = "crit"
  /\ enc' = [enc EXCEPT !.err = Record(@, Work(a.Images[k + 1], k).err)]
  /\ mutex' = Free
  /\ recorded' = Append(recorded, k)
  /\ wpc' = [wpc EXCEPT ![k] = "exit"]
  /\ UNCHANGED << caller, a, pc, ret, out, hasFirstPaletted, globalPLTE, globalTRNS,
                  wg, frameDataChan, closed, frameDataMap, i, arrived >>

\* mutant of WSend: the goroutine returns without sending its result
WSendNothing(k) ==
  /\ pc = "drain"
  /\ wpc[k] = "send"
  /\ wpc' = [wpc EXCEPT ![k] = "exit"]
  /\ UNCHANGED << caller, a, pc, ret, enc, out, hasFirstPaletted, globalPLTE, globalTRNS,
                  mutex, wg, frameDataChan, closed, frameDataMap, i, arrived, recorded >>

\* goroutine of frame k: frameDataChan <- frameData{...}
WSend(k) ==
  /\ pc = "drain"
  /\ wpc[k] = "send"
  /\ Len(frameDataChan) < N
  /\ ~closed
  /\ frameDataChan' = Append(frameDataChan, FrameData(k))
  /\ wpc' = [wpc EXCEPT ![k] = "exit"]
  /\ UNCHANGED << caller, a, pc, ret, enc, out, hasFirstPaletted, globalPLTE, globalTRNS,
                  mutex, wg, closed, frameDataMap, i, arrived, recorded >>

\* mutant of WDone: a goroutine that recorded a failure returns without
\* wg.Done()
WDoneNotOnFailure(k) ==
  /\ pc = "drain"
  /\ wpc[k] = "exit"
  /\ wg' = IF \E j \in 1..Len(recorded) : recorded[j] = k THEN wg ELSE wg - 1
  /\ wpc' = [wpc EXCEPT ![k] = "done"]
  /\ UNCHANGED << caller, a, pc, ret, enc, out, hasFirstPaletted, globalPLTE, globalTRNS,
                  mutex, frameDataChan, closed, frameDataMap, i, arrived, recorded >>

\* goroutine of frame k: the deferred wg.Done()
WDone(k) ==
  /\ pc = "drain"
  /\ wpc[k] = "exit"
  /\ wg' = wg - 1
  /\ wpc' = [wpc EXCEPT ![k] = "done"]
  /\ UNCHANGED << caller, a, pc, ret, enc, out, hasFirstPaletted, globalPLTE, globalTRNS,
                  mutex, frameDataChan, closed, frameDataMap, i, arrived, recorded >>

\* mutant of Closer: the channel is closed without waiting for the goroutines
CloserEarly ==
  /\ pc = "drain"
  /\ ~closed
  /\ closed' = TRUE
  /\ UNCHANGED << caller, a, pc, ret, enc, out, hasFirstPaletted, globalPLTE, globalTRNS,
                  wpc, mutex, wg, frameDataChan, frameDataMap, i, arrived, recorded >>

\* the closer goroutine: wg.Wait(); close(frameDataChan)
Closer ==
  /\ pc = "drain"
  /\ ~closed
  /\ wg = 0
  /\ closed' = TRUE
  /\ UNCHANGED << caller, a, pc, ret, enc, out, hasFirstPaletted, globalPLTE, globalTRNS,
                  wpc, mutex, wg, frameDataChan, frameDataMap, i, arrived, recorded >>

\* mutant of Store: the result is keyed by its order of arrival
StoreByArrival(m, fd) == (Cardinality(DOMAIN m) :> fd) @@ m

\* frameDataMap[fd.index] = fd
Store(m, fd) == (fd.index :> fd) @@ m

\* mutant of Recv: the result is stored under the number of results received
\* before it
RecvUnkeyed ==
  /\ pc = "drain"
  /\ frameDataChan # <<>>
  /\ frameDataMap' = Store(frameDataMap, [Head(frameDataChan) EXCEPT !.index = Len(arrived)])
  /\ frameDataChan' = Tail(frameDataChan)
  /\ arrived' = Append(arrived, Head(frameDataChan).index)
  /\ UNCHANGED << caller, a, pc, ret, enc, out, hasFirstPaletted, globalPLTE, globalTRNS,
                  wpc, mutex, wg, closed, i, recorded >>

\* one iteration of `for fd := range frameDataChan`
Recv ==
  /\ pc = "drain"
  /\ frameDataChan # <<>>
  /\ frameDataMap' = Store(frameDataMap, Head(frameDataChan))
  /\ frameDataChan' = Tail(frameDataChan)
  /\ arrived' = Append(arrived, Head(frameDataChan).index)
  /\ UNCHANGED << caller, a, pc, ret, enc, out, hasFirstPaletted, globalPLTE, globalTRNS,
                  wpc, mutex, wg, closed, i, recorded >>

\* mutant of DrainEnd: the error slot is not consulted
DrainEndUnchecked ==
  /\ pc = "drain"
  /\ frameDataChan = <<>>
  /\ closed
  /\ pc' = "first" /\ ret' = ret
  /\ UNCHANGED << caller, a, enc, out, hasFirstPaletted, globalPLTE, globalTRNS,
                  wpc, mutex, wg, frameDataChan, closed, frameDataMap, i, arrived, recorded >>

\* the range loop ends on the closed, empty channel; then the error check
DrainEnd ==
  /\ pc = "drain"
  /\ frameDataChan = <<>>
  /\ closed
  /\ IF enc.err # NoErr THEN Return(enc.err) ELSE pc' = "first" /\ ret' = ret
  /\ UNCHANGED << caller, a, enc, out, hasFirstPaletted, globalPLTE, globalTRNS,
                  wpc, mutex, wg, frameDataChan, closed, frameDataMap, i, arrived, recorded >>

\* globalPLTE[8 : 8+binary.BigEndian.Uint32(globalPLTE[:4])]
Payload(raw) == SubSeq(raw, 9, 8 + Uint32(Take(raw, 4)))

\* mutant of writePalette: the transparency chunk is left out
writePaletteWithoutTRNS(e, has, plte, trns) ==
  IF has /\ plte # <<>> THEN writeChunk(e, Payload(plte), TagPLTE) ELSE e

\* the PLTE and tRNS chunks of a paletted first image
writePalette(e, has, plte, trns) ==
  IF has /\ plte # <<>>
  THEN Bind(writeChunk(e, Payload(plte), TagPLTE), LAMBDA e1 :
         IF trns # <<>> THEN writeChunk(e1, Payload(trns), TagtRNS) ELSE e1)
  ELSE e

\* e.ihdr = fd.ihdr; e.idats = fd.idats
Load(e, fd) == [e EXCEPT !.ihdr = fd.ihdr, !.idats = fd.idats]

\* mutant of writeFirst: the palette chunks are written after acTL
writeFirstPaletteLate(e, ap, fd, has, plte, trns) ==
  writeIDATs(writefcTL(writePalette(writeacTL(writeIHDR(Load(e, fd)), ap),
                                    has, plte, trns), ap, 0))

\* the chunks of the first frame
writeFirst(e, ap, fd, has, plte, trns) ==
  writeIDATs(writefcTL(writeacTL(writePalette(writeIHDR(Load(e, fd)), has, plte, trns),
                                 ap), ap, 0))

\* mutant of writeFrame: the data of a later frame is written as IDAT chunks
writeFrameAsIDAT(e, ap, fd, k) == writeIDATs(writefcTL(Load(e, fd), ap, k))

\* the chunks of frame k > 0
writeFrame(e, ap, fd, k) == writefdATs(writefcTL(Load(e, fd), ap, k))

\* setup for the first frame, IHDR, PLTE, tRNS, acTL, fcTL and IDATs of frame 0
WriteFirst ==
  /\ pc = "first"
  /\ IF 0 \notin DOMAIN frameDataMap
     THEN /\ Return(ErrMissing(0))
          /\ UNCHANGED << enc, out, i >>
     ELSE \E left \in Lefts(3 * (5 + Len(frameDataMap[0].idats))) :
          \E e1 \in { writeFirst(WithWriter(left), a, frameDataMap[0],
                                 hasFirstPaletted, globalPLTE, globalTRNS) } :
                /\ enc' = Encoder(e1)
                /\ out' = e1.out
                /\ i' = 1
                /\ pc' = "loop"
                /\ ret' = ret
  /\ UNCHANGED << caller, a, hasFirstPaletted, globalPLTE, globalTRNS,
                  wpc, mutex, wg, frameDataChan, closed, frameDataMap, arrived, recorded >>

\* one iteration of the loop over frames 1..N-1: fcTL and fdATs of frame i
WriteFrame ==
  /\ pc = "loop"
  /\ i < N
  /\ IF i \notin DOMAIN frameDataMap
     THEN /\ Return(ErrMissing(i))
          /\ UNCHANGED << enc, out, i >>
     ELSE \E left \in Lefts(3 * (1 + Len(frameDataMap[i].idats))) :
          \E e1 \in { writeFrame(WithWriter(left), a, frameDataMap[i], i) } :
                /\ enc' = Encoder(e1)
                /\ out' = e1.out
                /\ i' = i + 1
                /\ UNCHANGED << pc, ret >>
  /\ UNCHANGED << caller, a, hasFirstPaletted, globalPLTE, globalTRNS,
                  wpc, mutex, wg, frameDataChan, closed, frameDataMap, arrived, recorded >>

\* e.writeIEND(); return e.err
WriteEnd ==
  /\ pc = "loop"
  /\ i >= N
  /\ \E left \in Lefts(3) :
     \E e1 \in { writeIEND(WithWriter(left)) } :
           /\ enc' = Encoder(e1)
           /\ out' = e1.out
           /\ Return(e1.err)
  /\ UNCHANGED << caller, a, hasFirstPaletted, globalPLTE, globalTRNS,
                  wpc, mutex, wg, frameDataChan, closed, frameDataMap, i, arrived, recorded >>

Next ==
  \/ Call
  \/ \E k \in DOMAIN wpc : WEncode(k)
  \/ \E k \in DOMAIN wpc : WLock(k)
  \/ \E k \in DOMAIN wpc : WRecord(k)
  \/ \E k \in DOMAIN wpc : WSend(k)
  \/ \E k \in DOMAIN wpc : WDone(k)
  \/ Closer
  \/ Recv
  \/ DrainEnd
  \/ WriteFirst
  \/ WriteFrame
  \/ WriteEnd

Spec == Init /\ [][Next]_vars

\* the Go scheduler runs a goroutine that can take a step: EncodeAll, the
\* per-frame goroutines and the closer goroutine are never all suspended for
\* ever while one of them can run
\* The calls explored under it: a frame that encodes and parses, a frame
\* whose encode fails, a paletted frame and a paletted frame whose encode
\* fails.
FairCatalog == {ImgA, ImgE, ImgP, ImgQ}

InitFair ==
  /\ caller = Direct
  /\ a \in { inp \in Inputs : \A k \in 1..Len(inp.Images) : inp.Images[k] \in FairCatalog }
  /\ pc = "start"
  /\ NotStarted

SpecFair == InitFair /\ [][Next]_vars /\ WF_vars(Next)

\* ------------------------------------------------------------------------
\* Save and APNGBytes
\* ------------------------------------------------------------------------
ErrNoImages == Err("entry", "apng: no images provided", -1)
ErrCreate == Err("os", "open: cannot create file", -1)

\* the delays the entry points are called with
EntryDelays == {3, 300}

\* the calls of Save and APNGBytes the model explores
Entries ==
  { [fn |-> fn, images |-> imgs, delay |-> d, at |-> "entered",
     err |-> NoErr, bytes |-> NilSlice] :
      fn \in {"Save", "APNGBytes"},
      imgs \in SeqsUpTo(Catalog, MaxFrames),
      d \in EntryDelays }

\* the zero APNG value, before an entry point has built its own
ZeroAPNG == [Images |-> <<>>, Delays |-> <<>>, Disposals |-> NilSlice, LoopCount |-> 0]

InitEntry ==
  /\ caller \in Entries
  /\ a = ZeroAPNG
  /\ pc = "idle"
  /\ NotStarted

\* mutant of UniformDelays: only the first frame gets the delay
UniformDelaysFirstOnly(totalFrames, delay) ==
  [k \in 1..totalFrames |-> IF k = 1 THEN delay ELSE 0]

\* delays := make([]uint16, totalFrames); for i := range delays { delays[i] = delay }
UniformDelays(totalFrames, delay) == [k \in 1..totalFrames |-> delay]

\* APNG{Images: images, Delays: delays}
animPng(images, delay) ==
  [Images |-> images, Delays |-> UniformDelays(Len(images), delay),
   Disposals |-> NilSlice, LoopCount |-> 0]

\* Save up to its call of EncodeAll: the image count check, the delays, os.Create
Save ==
  /\ caller.fn = "Save"
  /\ caller.at = "entered"
  /\ IF Len(caller.images) = 0
     THEN /\ caller' = [caller EXCEPT !.at = "returned", !.err = ErrNoImages]
          /\ UNCHANGED << a, pc >>
     ELSE \E created \in BOOLEAN :
            IF created
            THEN /\ caller' = [caller EXCEPT !.at = "called"]
                 /\ a' = animPng(caller.images, caller.delay)
                 /\ pc' = "start"
            ELSE /\ caller' = [caller EXCEPT !.at = "returned", !.err = ErrCreate]
                 /\ UNCHANGED << a, pc >>
  /\ UNCHANGED << ret, enc, out, hasFirstPaletted, globalPLTE, globalTRNS,
                  wpc, mutex, wg, frameDataChan, closed, frameDataMap, i,
                  arrived, recorded >>

\* Save returns what EncodeAll returned
SaveReturn ==
  /\ caller.fn = "Save"
  /\ caller.at = "called"
  /\ pc = "returned"
  /\ caller' = [caller EXCEPT !.at = "returned", !.err = ret]
  /\ UNCHANGED << a, pc, ret, enc, out, hasFirstPaletted, globalPLTE, globalTRNS,
                  wpc, mutex, wg, frameDataChan, closed, frameDataMap, i,
                  arrived, recorded >>

\* APNGBytes up to its call of EncodeAll on a new bytes.Buffer
APNGBytes ==
  /\ caller.fn = "APNGBytes"
  /\ caller.at = "entered"
  /\ IF Len(caller.images) = 0
     THEN /\ caller' = [caller EXCEPT !.at = "returned", !.err = ErrNoImages]
          /\ UNCHANGED << a, pc >>
     ELSE /\ caller' = [caller EXCEPT !.at = "called"]
          /\ a' = animPng(caller.images, caller.delay)
          /\ pc' = "start"
  /\ UNCHANGED << ret, enc, out, hasFirstPaletted, globalPLTE, globalTRNS,
                  wpc, mutex, wg, frameDataChan, closed, frameDataMap, i,
                  arrived, recorded >>

\* APNGBytes returns nil, err when EncodeAll failed and buf.Bytes(), nil otherwise
APNGBytesReturn ==
  /\ caller.fn = "APNGBytes"
  /\ caller.at = "called"
  /\ pc = "returned"
  /\ caller' = [caller EXCEPT !.at = "returned", !.err = ret,
                              !.bytes = IF ret # NoErr THEN NilSlice ELSE Slice(out)]
  /\ UNCHANGED << a, pc, ret, enc, out, hasFirstPaletted, globalPLTE, globalTRNS,
                  wpc, mutex, wg, frameDataChan, closed, frameDataMap, i,
                  arrived, recorded >>

NextEntry ==
  \/ Save
  \/ APNGBytes
  \/ Next
  \/ SaveReturn
  \/ APNGBytesReturn

SpecEntry == InitEntry /\ [][NextEntry]_vars

\* ------------------------------------------------------------------------
\* fetchPNGChunk on its own, one loop iteration per step.  caller holds the
\* stream, the chunkFetcher c and, once the function has returned, its results.
\* ------------------------------------------------------------------------
EncodeAllVars == << a, pc, ret, enc, out, hasFirstPaletted, globalPLTE, globalTRNS,
                    wpc, mutex, wg, frameDataChan, closed, frameDataMap, i,
                    arrived, recorded >>

TagtEXt == <<116, 69, 88, 116>>

\* the chunks the streams are made of: well-formed chunks of every kind, a
\* header chunk that declares 769 bytes, a terminator that declares 5 bytes
ChunkAlphabet ==
  { MkChunk(TagIHDR, <<1, 2>>), MkChunk(TagPLTE, <<1, 2, 3>>), MkChunk(TagtRNS, <<9>>),
    MkChunk(TagIDAT, <<10, 11>>), MkChunk(TagIDAT, <<20>>), MkChunk(TagtEXt, <<7>>),
    MkChunk(TagIEND, <<>>),
    writeUint32(TmpSize + 1) \o TagIHDR \o <<1, 2>>,
    writeUint32(5) \o TagIEND }

\* the streams given to the parser: the signature and up to MaxChunks chunks,
\* followed by a terminator or with up to MaxCut bytes cut from their end
Streams ==
  { pngHeader \o Take(Concat(cs), Len(Concat(cs)) - d) :
      cs \in SeqsUpTo(ChunkAlphabet, MaxChunks), d \in 0..MaxCut }
  \cup { pngHeader \o Concat(cs) \o MkChunk(TagIEND, <<>>) :
           cs \in SeqsUpTo(ChunkAlphabet, MaxChunks) }

InitParse ==
  /\ caller \in { [fn |-> "fetchPNGChunk", stream |-> st, at |-> "entered",
                    c |-> NewFetcher(<<>>, TRUE), pc |-> NewPngChunk, err |-> NoErr] :
                    st \in Streams }
  /\ a = ZeroAPNG
  /\ pc = "idle"
  /\ NotStarted

\* bb.Next(len(pngHeader)); c := &chunkFetcher{...}
FetchStart ==
  /\ caller.fn = "fetchPNGChunk"
  /\ caller.at = "entered"
  /\ caller' = [caller EXCEPT !.at = "loop",
                              !.c = NewFetcher(Next_(caller.stream, SigLen).rest, TRUE)]
  /\ UNCHANGED EncodeAllVars

\* mutant of FetchStep: the loop goes on after the terminator
FetchStepPastEnd ==
  /\ caller.fn = "fetchPNGChunk"
  /\ caller.at = "loop"
  /\ \E r \in { parsePNGChunk(caller.c) } :
        caller' = IF r.err = ErrPanic
                  THEN [caller EXCEPT !.at = "panicked", !.c = r.c]
                  ELSE IF r.err # NoErr
                  THEN [caller EXCEPT !.at = "returned", !.c = r.c, !.err = MapEOF(r.err)]
                  ELSE [caller EXCEPT !.c = r.c]
  /\ UNCHANGED EncodeAllVars

\* one iteration of `for c.stage != dsSeenIEND`: parsePNGChunk and its error check
FetchStep ==
  /\ caller.fn = "fetchPNGChunk"
  /\ caller.at = "loop"
  /\ caller.c.stage # dsSeenIEND
  /\ \E r \in { parsePNGChunk(caller.c) } :
        caller' = IF r.err = ErrPanic
                  THEN [caller EXCEPT !.at = "panicked", !.c = r.c]
                  ELSE IF r.err # NoErr
                  THEN [caller EXCEPT !.at = "returned", !.c = r.c, !.err = MapEOF(r.err)]
                  ELSE [caller EXCEPT !.c = r.c]
  /\ UNCHANGED EncodeAllVars

\* return c.pc, nil
FetchReturn ==
  /\ caller.fn = "fetchPNGChunk"
  /\ caller.at = "loop"
  /\ caller.c.stage = dsSeenIEND
  /\ caller' = [caller EXCEPT !.at = "returned", !.pc = caller.c.pc]
  /\ UNCHANGED EncodeAllVars

NextParse == FetchStart \/ FetchStep \/ FetchReturn

SpecParse == InitParse /\ [][NextParse]_vars

\* the loop is not suspended for ever: the function runs on its own goroutine
\* or on the caller's, and nothing in it blocks
SpecParseFair == SpecParse /\ WF_vars(NextParse)

\* ------------------------------------------------------------------------
\* The chunk writer on its own: the encoder of one EncodeAll call after the
\* signature write, a run of writeChunk calls, then `return e.err`.  caller
\* holds the calls and the number of them made so far.
\* ------------------------------------------------------------------------
\* a slice of over * 2^32 + Len(v) bytes, v being the bytes that its length
\* truncated to 32 bits counts
SliceOf(over, v) == [len |-> [GoLen(Len(v)) EXCEPT !.hi = over], v |-> v]

\* the payloads writeChunk is called with: empty, short, and the same with
\* 2^32 more bytes
Payloads == { SliceOf(over, v) : over \in 0..1, v \in {<<>>, <<1, 2, 3>>} }

ChunkCalls ==
  SeqsUpTo({ [b |-> b, name |-> name] : b \in Payloads, name \in {TagIDAT, TagfdAT} },
           MaxCalls)

\* e := encoder{...}; _, e.err = io.WriteString(w, pngHeader)
InitChunk ==
  /\ caller \in { [fn |-> "writeChunk", calls |-> cs, made |-> 0, at |-> "writing"] :
                    cs \in ChunkCalls }
  /\ a = ZeroAPNG
  /\ pc = "idle"
  /\ ret = NoErr
  /\ \/ enc = NewEncoder /\ out = pngHeader
     \/ enc = [NewEncoder EXCEPT !.err = ErrWrite] /\ out = <<>>
  /\ hasFirstPaletted = FALSE
  /\ globalPLTE = <<>>
  /\ globalTRNS = <<>>
  /\ wpc = [k \in {} |-> "none"]
  /\ mutex = Free
  /\ wg = 0
  /\ frameDataChan = <<>>
  /\ closed = FALSE
  /\ frameDataMap = [k \in {} |-> 0]
  /\ i = 0
  /\ arrived = <<>>
  /\ recorded = <<>>

\* the next writeChunk call
ChunkCall ==
  /\ caller.fn = "writeChunk"
  /\ caller.at = "writing"
  /\ caller.made < Len(caller.calls)
  /\ \E left \in Lefts(3) :
     \E call \in { caller.calls[caller.made + 1] } :
     \E e1 \in { writeChunkLen(WithWriter(left), call.b.len, call.b.v, call.name) } :
           /\ enc' = Encoder(e1)
           /\ out' = e1.out
  /\ caller' = [caller EXCEPT !.made = @ + 1]
  /\ UNCHANGED << a, pc, ret, hasFirstPaletted, globalPLTE, globalTRNS,
                  wpc, mutex, wg, frameDataChan, closed, frameDataMap, i,
                  arrived, recorded >>

\* return e.err
ChunkReturn ==
  /\ caller.fn = "writeChunk"
  /\ caller.at = "writing"
  /\ caller.made = Len(caller.calls)
  /\ ret' = enc.err
  /\ caller' = [caller EXCEPT !.at = "returned"]
  /\ UNCHANGED << a, pc, enc, out, hasFirstPaletted, globalPLTE, globalTRNS,
                  wpc, mutex, wg, frameDataChan, closed, frameDataMap, i,
                  arrived, recorded >>

NextChunk == ChunkCall \/ ChunkReturn

SpecChunk == InitChunk /\ [][NextChunk]_vars

\* ------------------------------------------------------------------------
\* Reading the output back as a chunk stream
\* ------------------------------------------------------------------------
RECURSIVE ChunksOf(_)
ChunksOf(b) ==
  IF Len(b) < 12 THEN <<>>
  ELSE Bind(Uint32(Take(b, 4)), LAMBDA n :
         IF Len(b) - 12 < n THEN <<>>
         ELSE << [tag |-> SubSeq(b, 5, 8), data |-> SubSeq(b, 9, 8 + n),
                  crc |-> SubSeq(b, 9 + n, 12 + n)] >>
              \o Bind(Drop(b, 12 + n), LAMBDA rest : ChunksOf(rest)))

\* the chunks of the output, after the signature
OutChunks == ChunksOf(Drop(out, SigLen))

Returned == pc = "returned"
Success == Returned /\ ret = NoErr

\* what the parser extracts from the encoding of frame k
Parsed(k) == Work(a.Images[k + 1], k).pc

TagsOf(cs) == [p \in 1..Len(cs) |-> cs[p].tag]
PositionsOf(cs, tag) == { p \in 1..Len(cs) : cs[p].tag = tag }
\* the k-th (from 0) position of a set of positions
Nth(P, k) == CHOOSE p \in P : Cardinality({ q \in P : q < p }) = k
IsData(c) == c.tag = TagIDAT \/ c.tag = TagfdAT
\* the run of data chunks that follows position p
GroupEnd(cs, p) ==
  IF \E q \in (p + 1)..Len(cs) : ~IsData(cs[q])
  THEN (CHOOSE q \in (p + 1)..Len(cs) :
          ~IsData(cs[q]) /\ \A x \in (p + 1)..(q - 1) : IsData(cs[x])) - 1
  ELSE Len(cs)
GroupAfter(cs, p) == SubSeq(cs, p + 1, GroupEnd(cs, p))
\* the compressed data a data chunk carries
Carried(c) == IF c.tag = TagfdAT THEN Drop(c.data, 4) ELSE c.data
\* the sequence number a fcTL or fdAT chunk carries
SeqNo(c) == Uint32(Take(c.data, 4))
\* the number of fcTL and fdAT chunks before position p
Sequenced(cs, p) ==
  Cardinality({ q \in 1..(p - 1) : cs[q].tag = TagfcTL \/ cs[q].tag = TagfdAT })

\* the region and delay a fcTL payload states are those of frame k
Describes(d, k) ==
  LET bounds == a.Images[k + 1].bounds
  IN  /\ Len(d) = 26
      /\ Uint32(SubSeq(d, 5, 8)) = Dx(bounds)
      /\ Uint32(SubSeq(d, 9, 12)) = Dy(bounds)
      /\ Uint32(SubSeq(d, 13, 16)) = bounds.Min.X
      /\ Uint32(SubSeq(d, 17, 20)) = bounds.Min.Y
      /\ d[21] * 256 + d[22] = a.Delays[k + 1]

\* ------------------------------------------------------------------------
\* Claims
\* ------------------------------------------------------------------------

\* C1: in a successful output the k-th fcTL describes frame k and is followed
\* by exactly the data chunks parsed from frame k, whatever the order in which
\* the goroutines completed.
C1_FrameOrder ==
  Success =>
    \E cs \in {OutChunks} :
      LET F == PositionsOf(cs, TagfcTL)
      IN  /\ Cardinality(F) = N
          /\ \A k \in Frames :
               LET g == GroupAfter(cs, Nth(F, k))
               IN  /\ Describes(cs[Nth(F, k)].data, k)
                   /\ [j \in 1..Len(g) |-> Carried(g[j])] = Parsed(k).idats

\* C1 witness: a successful two-frame run in which frame 1 was received
\* before frame 0.
C1_Witness == Success /\ N = 2 /\ arrived = <<1, 0>>

C3_AnimationControl ==
  Success =>
    \E cs \in {OutChunks} :
      /\ Cardinality(PositionsOf(cs, TagacTL)) = 1
      /\ \A p \in PositionsOf(cs, TagacTL) :
           /\ Len(cs[p].data) = 8
           /\ Uint32(SubSeq(cs[p].data, 1, 4)) = Len(a.Images)
           /\ Uint32(SubSeq(cs[p].data, 5, 8)) = a.LoopCount

\* C3 witness: a successful run of two frames with a non-zero loop count.
C3_Witness == Success /\ N = 2 /\ a.LoopCount = 2

\* C4: the chunk stream of a successful output is IHDR (frame 0's header),
\* at most one PLTE, at most one tRNS, one acTL, then N groups each made of one
\* fcTL and data chunks, then one IEND with an empty payload, and nothing else.
C4_ChunkShape ==
  Success =>
    \E cs \in {OutChunks} :
      LET n  == Len(cs)
          p1 == IF cs[2].tag = TagPLTE THEN 3 ELSE 2
          p2 == IF cs[p1].tag = TagtRNS THEN p1 + 1 ELSE p1
      IN  /\ Take(out, SigLen) = pngHeader
          /\ n >= 4
          /\ Len(out) = SigLen + 12 * n + Len(Concat([p \in 1..n |-> cs[p].data]))
          /\ cs[1].tag = TagIHDR
          /\ cs[1].data = Parsed(0).ihdr
          /\ cs[p2].tag = TagacTL
          /\ cs[p2 + 1].tag = TagfcTL
          /\ \A q \in (p2 + 1)..(n - 1) : cs[q].tag = TagfcTL \/ IsData(cs[q])
          /\ Cardinality(PositionsOf(cs, TagfcTL)) = N
          /\ cs[n].tag = TagIEND
          /\ cs[n].data = <<>>

\* C4 witness: a successful run of two frames whose first frame is paletted,
\* so that PLTE and tRNS are present.
C4_Witness ==
  /\ Success /\ N = 2
  /\ PositionsOf(OutChunks, TagPLTE) = {2}
  /\ PositionsOf(OutChunks, TagtRNS) = {3}

\* C5: frame 0's data payloads become IDAT chunks, unchanged and in order;
\* each data payload of a frame k > 0 becomes one fdAT chunk made of its
\* 4-byte sequence number and the payload unchanged; no IDAT belongs to a
\* later frame and no fdAT to frame 0.
C5_DataChunks ==
  Success =>
    \E cs \in {OutChunks} :
      LET F == PositionsOf(cs, TagfcTL)
      IN  \A k \in Frames :
            LET p == Nth(F, k)
                g == GroupAfter(cs, p)
                idats == Parsed(k).idats
            IN  /\ Len(g) = Len(idats)
                /\ \A j \in 1..Len(g) :
                     IF k = 0
                     THEN g[j].tag = TagIDAT /\ g[j].data = idats[j]
                     ELSE /\ g[j].tag = TagfdAT
                          /\ Len(g[j].data) = Len(idats[j]) + 4
                          /\ Uint32(Take(g[j].data, 4)) = Sequenced(cs, p + j)
                          /\ Drop(g[j].data, 4) = idats[j]
                /\ \A q \in PositionsOf(cs, TagIDAT) : N > 1 => q < Nth(F, 1)
                /\ \A q \in PositionsOf(cs, TagfdAT) : q > Nth(F, 1)

\* C5 witness: a successful run whose second frame has two data payloads,
\* written as two fdAT chunks after the single IDAT of frame 0.
C5_Witness ==
  /\ Success /\ N = 2
  /\ Len(Parsed(1).idats) = 2
  /\ Cardinality(PositionsOf(OutChunks, TagfdAT)) = 2
  /\ Cardinality(PositionsOf(OutChunks, TagIDAT)) = 1

\* the counts of the arguments do not match
BadCounts ==
  \/ Len(a.Images) = 0
  \/ Len(a.Delays) # Len(a.Images)
  \/ ~a.Disposals.isNil /\ Len(a.Disposals.v) # Len(a.Images)

\* C6: with no frame, or a delay or disposal count different from the frame
\* count, EncodeAll returns a validation error, starts no goroutine and writes
\* no byte, not even the signature.
C6_CountsValidated ==
  BadCounts =>
    /\ pc \in {"start", "returned"}
    /\ Returned => ret \in {ErrNoImage, ErrDelays, ErrDisposals}
    /\ out = <<>>
    /\ DOMAIN wpc = {}
    /\ wg = 0
    /\ enc = NewEncoder

\* C6 witness: EncodeAll has returned the disposal-count error.
C6_Witness == Returned /\ ret = ErrDisposals /\ Len(a.Images) = 2 /\ Len(a.Delays) = 2

ValidationFailed == Returned /\ ret.kind = "validation"

\* r lies within ref and has a non-negative origin; an empty rectangle lies
\* within every rectangle
Within(r, ref) ==
  /\ r.Min.X >= 0 /\ r.Min.Y >= 0
  /\ \/ Dx(r) <= 0 \/ Dy(r) <= 0
     \/ /\ r.Min.X >= ref.Min.X /\ r.Min.Y >= ref.Min.Y
        /\ r.Max.X <= ref.Max.X /\ r.Max.Y <= ref.Max.Y

\* C7: every call that passes validation has every frame's bounds within the
\* bounds of frame 0; a frame outside them is answered by a validation error.
C7_FramesWithinCanvas ==
  (pc # "start" /\ ~ValidationFailed) =>
    \A k \in 1..Len(a.Images) : Within(a.Images[k].bounds, a.Images[1].bounds)

MixedModels == \E j, k \in 1..Len(a.Images) : a.Images[j].model # a.Images[k].model

\* C8: frames of different color models (not all paletted) are answered by a
\* validation error before any work is dispatched.
C8_MixedModelsRejected == MixedModels => (pc = "start" \/ ValidationFailed)

AllWorkersDone == \A k \in DOMAIN wpc : wpc[k] = "done"

\* the error of the first goroutine to enter the failure path's critical section
FirstFailure == Work(a.Images[recorded[1] + 1], recorded[1]).err

\* C9 as stated: when tasks fail, EncodeAll returns the error of the first
\* task to record its failure, after every task has finished.
C9_FirstTaskError ==
  (Returned /\ recorded # <<>>) => (ret = FirstFailure /\ AllWorkersDone)

\* C9 amended: the error slot keeps the first error stored in it, which is the
\* signature write error when that write failed and the error of the first
\* task to record its failure otherwise; later failures never replace it, and
\* EncodeAll returns it after every goroutine has finished.
C9_FirstErrorWins ==
  recorded # <<>> =>
    /\ enc.err = (IF out = <<>> THEN ErrWrite ELSE FirstFailure)
    /\ Returned => (ret = enc.err /\ AllWorkersDone /\ DOMAIN wpc = Frames)

\* C9 witness: two tasks failed, the task of frame 1 first, the signature was
\* written, and EncodeAll has returned.
C9_Witness == Returned /\ recorded = <<1, 0>> /\ out = pngHeader

\* C10 as stated: nothing is written before every task has finished.
C10_NoWriteBeforeFanIn == out # <<>> => AllWorkersDone

\* C10 amended: before every task has finished only the 8-byte signature is
\* written (before the tasks are started); every chunk is written after the
\* last goroutine has finished and the channel has been closed and drained.
C10_NoChunkBeforeFanIn ==
  /\ ~AllWorkersDone => (out = <<>> \/ out = pngHeader)
  /\ Len(out) > SigLen =>
       /\ DOMAIN wpc = Frames /\ AllWorkersDone
       /\ closed /\ frameDataChan = <<>>
       /\ pc \in {"loop", "returned"}

\* C10 witness: chunks have been written, after both goroutines finished with
\* frame 1 first.
C10_Witness == pc = "loop" /\ Len(out) > SigLen /\ arrived = <<1, 0>> /\ AllWorkersDone

\* a Write call on the destination has failed: only such a failure stores ErrWrite
WriteFailed == enc.err = ErrWrite

\* the bytes of the output that follow its last complete chunk
RECURSIVE Unfinished(_)
Unfinished(b) ==
  IF Len(b) < 12 THEN b
  ELSE Bind(Uint32(Take(b, 4)), LAMBDA n :
         IF Len(b) - 12 < n THEN b
         ELSE Bind(Drop(b, 12 + n), LAMBDA rest : Unfinished(rest)))

\* the output stops right where a Write call failed: before the signature, or
\* before the header, the payload or the CRC of one chunk
StopsAtWrite ==
  \/ out = <<>>
  \/ \E u \in {Unfinished(Drop(out, SigLen))} :
        \/ u = <<>>
        \/ Len(u) = 8
        \/ Len(u) > 8 /\ Len(u) = 8 + Uint32(Take(u, 4))

\* after a failed Write no step writes to the destination or changes the
\* stored error
StickyStep == WriteFailed => (out' = out /\ enc'.err = enc.err)

AfterSignature ==
  [seqNum |-> 0, ihdr |-> <<>>, idats |-> <<>>, err |-> NoErr,
   out |-> pngHeader, left |-> NoLimit]

\* frames k..N-1 and IEND written one after the other, in index order
RECURSIVE InIndexOrder(_, _)
InIndexOrder(e, k) ==
  Bind(e, LAMBDA ev :
    IF k >= N THEN writeIEND(ev)
    ELSE InIndexOrder(writeFrame(ev, a, FrameData(k), k), k + 1))

\* the output the arguments alone determine on a destination that never
\* fails: nothing when validation fails, the signature when the pre-pass or a
\* frame fails, and otherwise the frames written in index order by a single
\* thread
Determined ==
  IF Validate(a) # NoErr THEN <<>>
  ELSE IF PrePass(a).err # NoErr \/ \E k \in Frames : Work(a.Images[k + 1], k).err # NoErr
  THEN pngHeader
  ELSE InIndexOrder(writeFirst(AfterSignature, a, FrameData(0), PrePass(a).has,
                               PrePass(a).plte, PrePass(a).trns), 1).out

\* C12: on a destination that never fails, the output of a call that has
\* returned is a function of Images, Delays, Disposals and LoopCount alone, so
\* two runs on the same arguments produce the same bytes whatever the order
\* in which the goroutines ran and completed.
C12_OutputDetermined == (Returned /\ ~WriteFailed) => out = Determined

\* C12 witness: a successful run on two different frames in which frame 1 was
\* received before frame 0 and no goroutine failed.
C12_Witness ==
  /\ Success /\ N = 2 /\ a.Images[1] # a.Images[2]
  /\ arrived = <<1, 0>> /\ recorded = <<>>
  /\ out = Determined

\* the tags EncodeAll writes
WrittenTags == {TagIHDR, TagPLTE, TagtRNS, TagacTL, TagfcTL, TagIDAT, TagfdAT, TagIEND}

\* C13: when EncodeAll returns, the output after the signature is a run of complete
\* chunks, each made of the 4-byte big-endian length of its payload, its
\* 4-byte tag, the payload and the big-endian CRC-32 of tag and payload of
\* that chunk alone, followed by at most the part of one chunk written before
\* a Write failed; the empty IEND chunk carries the CRC ae 42 60 82.
C13_ChunkFraming ==
  (Returned /\ Len(out) > SigLen) =>
    \E cs \in {OutChunks} :
      /\ \A p \in 1..Len(cs) :
           /\ cs[p].tag \in WrittenTags
           /\ cs[p].crc = crc32(cs[p].tag \o cs[p].data)
           /\ cs[p].tag = TagIEND => cs[p].data = <<>> /\ cs[p].crc = <<174, 66, 96, 130>>
      /\ \E u \in {Unfinished(Drop(out, SigLen))} :
           /\ Len(out) = SigLen + 12 * Len(cs) + Len(Concat([p \in 1..Len(cs) |-> cs[p].data]))
                          + Len(u)
           /\ u # <<>> => /\ WriteFailed
                          /\ SubSeq(u, 5, 8) \in WrittenTags
                          /\ Len(u) \in {8, 8 + Uint32(Take(u, 4))}

\* C13 witness: a successful two-frame output of at least seven chunks, with
\* payloads of different lengths, ending in IEND.
C13_Witness ==
  /\ Success /\ N = 2
  /\ Len(OutChunks) >= 7
  /\ OutChunks[Len(OutChunks)].tag = TagIEND
  /\ Cardinality({ Len(OutChunks[p].data) : p \in 1..Len(OutChunks) }) >= 4

\* C14: in a successful output the fcTL of frame k has a payload of 26 bytes:
\* its sequence number, width Max.X - Min.X, height Max.Y - Min.Y, x-offset
\* Min.X, y-offset Min.Y, delay numerator Delays[k], delay denominator 100,
\* dispose-op Disposals[k] (0 when Disposals is nil) and blend-op 0.
C14_FrameControl ==
  Success =>
    \E cs \in {OutChunks} :
      LET F == PositionsOf(cs, TagfcTL)
      IN  /\ Cardinality(F) = N
          /\ \A k \in Frames :
               LET d == cs[Nth(F, k)].data
                   bounds == a.Images[k + 1].bounds
               IN  /\ Len(d) = 26
                   /\ Uint32(SubSeq(d, 1, 4)) = Sequenced(cs, Nth(F, k))
                   /\ Uint32(SubSeq(d, 5, 8)) = bounds.Max.X - bounds.Min.X
                   /\ Uint32(SubSeq(d, 9, 12)) = bounds.Max.Y - bounds.Min.Y
                   /\ Uint32(SubSeq(d, 13, 16)) = bounds.Min.X
                   /\ Uint32(SubSeq(d, 17, 20)) = bounds.Min.Y
                   /\ d[21] * 256 + d[22] = a.Delays[k + 1]
                   /\ d[23] * 256 + d[24] = 100
                   /\ d[25] = (IF a.Disposals.isNil THEN 0 ELSE a.Disposals.v[k + 1])
                   /\ d[26] = 0

\* C14 witness: a successful two-frame output whose second frame has a
\* non-zero offset and a non-zero dispose-op.
C14_Witness ==
  /\ Success /\ N = 2
  /\ a.Images[2].bounds.Min.X = 1 /\ a.Images[2].bounds.Min.Y = 1
  /\ ~a.Disposals.isNil /\ a.Disposals.v[2] = 2
  /\ Cardinality(PositionsOf(OutChunks, TagfcTL)) = 2

\* the chunks of the single-image encoding of frame k
EncodedChunks(k) == ChunksOf(Drop(pngEncode(a.Images[k + 1]).bytes, SigLen))

\* C15: a successful output whose frame 0 is paletted holds exactly one PLTE
\* chunk, right after IHDR and before acTL, with the PLTE payload of frame
\* 0's own encoding, followed by one tRNS chunk with frame 0's tRNS payload
\* exactly when that encoding holds one; when frame 0 is not paletted the
\* output holds no PLTE and no tRNS.  The palettes of later frames are never
\* written.
C15_GlobalPalette ==
  Success =>
    \E cs \in {OutChunks}, src \in {EncodedChunks(0)} :
      LET plte == PositionsOf(src, TagPLTE)
          trns == PositionsOf(src, TagtRNS)
      IN  IF IsPaletted(a.Images[1])
          THEN /\ PositionsOf(cs, TagPLTE) = {2}
               /\ \A p \in plte : cs[2].data = src[p].data
               /\ plte # {}
               /\ IF trns = {}
                  THEN PositionsOf(cs, TagtRNS) = {} /\ cs[3].tag = TagacTL
                  ELSE /\ PositionsOf(cs, TagtRNS) = {3}
                       /\ \A p \in trns : cs[3].data = src[p].data
                       /\ cs[4].tag = TagacTL
          ELSE PositionsOf(cs, TagPLTE) = {} /\ PositionsOf(cs, TagtRNS) = {}

\* C15 witness: a successful output of two paletted frames with different
\* palettes, the first with a transparency chunk and the second without.
C15_Witness ==
  /\ Success /\ N = 2
  /\ IsPaletted(a.Images[1]) /\ IsPaletted(a.Images[2])
  /\ PositionsOf(EncodedChunks(0), TagtRNS) # {}
  /\ PositionsOf(EncodedChunks(1), TagtRNS) = {}
  /\ PositionsOf(OutChunks, TagtRNS) = {3}

\* C16: Save and APNGBytes call EncodeAll, when they call it, with the images
\* they were given, Delays of the same length all equal to the delay, nil
\* Disposals and LoopCount 0; with no image they return an error and EncodeAll
\* is not called, and with images only a failure to create Save's file keeps
\* them from calling it; every fcTL of a successful result carries the delay
\* as its numerator; APNGBytes returns nil bytes exactly when it returns an
\* error, and the output of EncodeAll otherwise.
C16_UniformDelay ==
  /\ pc # "idle" =>
       /\ Len(caller.images) >= 1
       /\ a.Images = caller.images
       /\ Len(a.Delays) = Len(caller.images)
       /\ \A k \in 1..Len(a.Delays) : a.Delays[k] = caller.delay
       /\ a.Disposals.isNil
       /\ a.LoopCount = 0
  /\ Len(caller.images) = 0 =>
       /\ pc = "idle" /\ out = <<>>
       /\ caller.at = "returned" => caller.err = ErrNoImages
  /\ (Len(caller.images) >= 1 /\ caller.at = "returned" /\ pc = "idle") =>
       (caller.fn = "Save" /\ caller.err = ErrCreate)
  /\ (caller.at = "returned" /\ pc = "returned") => caller.err = ret
  /\ (caller.at = "returned" /\ caller.err = NoErr) =>
       \E cs \in {OutChunks} :
         /\ Cardinality(PositionsOf(cs, TagfcTL)) = Len(caller.images)
         /\ \A p \in PositionsOf(cs, TagfcTL) :
              cs[p].data[21] * 256 + cs[p].data[22] = caller.delay
  /\ (caller.at = "returned" /\ caller.fn = "APNGBytes") =>
       /\ caller.bytes.isNil <=> caller.err # NoErr
       /\ caller.err = NoErr => caller.bytes.v = out

\* C16 witness: APNGBytes has returned the bytes of a two-frame animation
\* with delay 300.
C16_Witness ==
  /\ caller.fn = "APNGBytes" /\ caller.at = "returned" /\ caller.err = NoErr
  /\ Len(caller.images) = 2 /\ caller.delay = 300
  /\ ~caller.bytes.isNil /\ Len(caller.bytes.v) > SigLen

\* the encode or the parse of some frame fails
FrameFails == \E k \in 1..Len(a.Images) : Work(a.Images[k], k - 1).err # NoErr

\* C17: when the encode or the parse of any frame fails, EncodeAll never gets
\* past the error check: it writes no chunk (the output holds at most the
\* signature, so no IEND) and what it returns is an error.
C17_NoChunkOnFrameFailure ==
  /\ (Len(out) > SigLen \/ pc \in {"first", "loop"}) => ~FrameFails
  /\ (Returned /\ ret = NoErr) => ~FrameFails
  /\ (Returned /\ FrameFails) => PositionsOf(OutChunks, TagIEND) = {}

\* C17 witness: frame 0 of two was encoded and parsed, frame 1 failed, and
\* EncodeAll has returned frame 1's error with only the signature written.
C17_Witness ==
  /\ Returned /\ N = 2 /\ recorded = <<1>> /\ arrived = <<0>>
  /\ ret # NoErr /\ ret = Work(a.Images[2], 1).err
  /\ out = pngHeader

\* the parser has stopped, by returning or by a run-time panic
Stopped == caller.at \in {"returned", "panicked"}

\* some chunk header the parser reaches in b declares more payload bytes than
\* remain after it
RECURSIVE ShortPayloadIn(_)
ShortPayloadIn(b) ==
  IF Len(b) < 8 THEN FALSE
  ELSE Bind(Uint32(Take(b, 4)), LAMBDA n :
         IF n > Len(b) - 8 THEN TRUE
         ELSE IF SubSeq(b, 5, 8) = TagIEND THEN FALSE
         ELSE Bind(Drop(b, 12 + n), LAMBDA rest : ShortPayloadIn(rest)))

\* C18: whenever a chunk header declares more payload bytes than remain in
\* the stream, whatever its tag and declared length, fetchPNGChunk returns
\* nil and the unexpected-EOF error: it neither returns a parsed result nor
\* stops in another way.
C18_ShortPayloadFails ==
  (Stopped /\ ShortPayloadIn(Drop(caller.stream, SigLen))) =>
    /\ caller.at = "returned"
    /\ caller.err = ErrUnexpectedEOF
    /\ caller.pc = NewPngChunk

\* the parser reaches a header with the terminator tag in b
RECURSIVE TerminatorIn(_)
TerminatorIn(b) ==
  IF Len(b) < 8 THEN FALSE
  ELSE IF SubSeq(b, 5, 8) = TagIEND THEN TRUE
  ELSE Bind(Uint32(Take(b, 4)), LAMBDA n :
         IF n > Len(b) - 8 THEN FALSE
         ELSE Bind(Drop(b, 12 + n), LAMBDA rest : TerminatorIn(rest)))

\* an iteration after which the loop goes on has consumed at least the 8
\* header bytes
StepConsumes ==
  (caller.at = "loop" /\ caller'.at = "loop") =>
    Len(caller'.c.bb) + 8 <= Len(caller.c.bb)

\* C19: on every stream the loop of fetchPNGChunk stops; an iteration either
\* consumes at least the 8 header bytes or ends the loop with an error;
\* success is returned only after an IEND tag has been read; a stream that
\* ends without an IEND yields the unexpected-EOF error.
C19_ParserTerminates ==
  /\ <>Stopped
  /\ [][StepConsumes]_vars
  /\ []((caller.at = "returned" /\ caller.err = NoErr) =>
          (caller.c.stage = dsSeenIEND /\ TerminatorIn(Drop(caller.stream, SigLen))))
  /\ []((Stopped /\ ~TerminatorIn(Drop(caller.stream, SigLen))) =>
          (caller.at = "returned" /\ caller.err = ErrUnexpectedEOF))

\* the chunks of the stream given to the parser, read by their declared lengths
StreamChunks == ChunksOf(Drop(caller.stream, SigLen))

\* the position of the first terminator among cs, 0 when there is none
FirstIEND(cs) ==
  IF PositionsOf(cs, TagIEND) = {} THEN 0 ELSE Nth(PositionsOf(cs, TagIEND), 0)

\* the stream is a run of complete chunks that holds a terminator, and every
\* chunk up to the terminator is framed as the single-image encoder frames it
WellFormed ==
  /\ Unfinished(Drop(caller.stream, SigLen)) = <<>>
  /\ \E cs \in {StreamChunks} :
       /\ FirstIEND(cs) > 0
       /\ \A p \in 1..FirstIEND(cs) : cs[p].crc = crc32(cs[p].tag \o cs[p].data)

IsIDAT(c) == c.tag = TagIDAT

\* the payloads of the IDAT chunks before the terminator, in stream order
DataBeforeIEND(cs) ==
  LET ds == SelectSeq(SubSeq(cs, 1, FirstIEND(cs) - 1), IsIDAT)
  IN  [j \in 1..Len(ds) |-> ds[j].data]

\* C20: on a well-formed stream fetchPNGChunk succeeds and its result holds
\* the payloads of the IDAT chunks that precede the terminator, all of them,
\* unchanged and in stream order, whatever chunks lie between them.
C20_DataInStreamOrder ==
  (caller.at = "returned" /\ WellFormed) =>
    /\ caller.err = NoErr
    /\ caller.pc.idats = DataBeforeIEND(StreamChunks)

\* C20 witness: the parser has returned from a stream of two IDAT chunks with
\* another chunk between them, followed by the terminator.
C20_Witness ==
  /\ caller.at = "returned" /\ WellFormed
  /\ TagsOf(StreamChunks) = <<TagIDAT, TagtEXt, TagIDAT, TagIEND>>
  /\ Len(caller.pc.idats) = 2
  /\ caller.pc.idats[1] # caller.pc.idats[2]

\* the tags parsePNGChunk has a case for
KnownTags == {TagIHDR, TagPLTE, TagtRNS, TagIDAT, TagIEND}

\* the buffer starts with a complete chunk of another tag
UnknownAhead(b) ==
  /\ Len(b) >= 12
  /\ SubSeq(b, 5, 8) \notin KnownTags
  /\ Uint32(Take(b, 4)) <= Len(b) - 12

\* b without the complete chunks of other tags that the parser reaches before
\* the terminator
RECURSIVE WithoutUnknown(_)
WithoutUnknown(b) ==
  IF Len(b) < 12 THEN b
  ELSE Bind(Uint32(Take(b, 4)), LAMBDA n :
         IF SubSeq(b, 5, 8) = TagIEND \/ Len(b) - 12 < n THEN b
         ELSE Bind(Drop(b, 12 + n), LAMBDA rest :
                IF SubSeq(b, 5, 8) \in KnownTags
                THEN Take(b, 12 + n) \o WithoutUnknown(rest)
                ELSE WithoutUnknown(rest)))

\* what a call of fetchPNGChunk that has stopped produced
Outcome ==
  IF caller.at = "panicked" THEN [pc |-> NewPngChunk, err |-> ErrPanic]
  ELSE [pc |-> caller.pc, err |-> caller.err]

\* an iteration that starts at a complete chunk of another tag consumes the 8
\* header bytes, the declared payload and the 4 CRC bytes, and nothing else
\* of the fetcher changes
SkipStep ==
  (caller.at = "loop" /\ caller.c.stage # dsSeenIEND /\ UnknownAhead(caller.c.bb)) =>
    /\ caller'.at = "loop"
    /\ caller'.c = [caller.c EXCEPT
                       !.bb = Drop(@, 12 + Uint32(Take(caller.c.bb, 4)))]

\* C21: a complete chunk with a tag the parser has no case for is skipped by
\* consuming its header, exactly its declared payload length and its CRC,
\* with no other effect on the fetcher, so the next chunk is read from the
\* byte after that CRC; and the outcome of fetchPNGChunk (header, palette,
\* transparency, data payloads, error) on a stream equals its outcome on the
\* same stream without the complete unknown chunks before the terminator.
C21_UnknownSkipped ==
  /\ [][SkipStep]_vars
  /\ [](Stopped =>
          Outcome = fetchPNGChunk(pngHeader \o WithoutUnknown(Drop(caller.stream, SigLen))))

\* C21 witness: the parser has returned the header and the data of a stream
\* with an unknown chunk between its header chunk and its data chunk.
C21_Witness ==
  /\ caller.at = "returned" /\ caller.err = NoErr
  /\ TagsOf(StreamChunks) = <<TagIHDR, TagtEXt, TagIDAT, TagIEND>>
  /\ caller.pc.ihdr = <<1, 2>>
  /\ caller.pc.idats = << <<10, 11>> >>

\* the bytes of b up to and including the first terminator header the parser
\* reaches; TerminatorIn(b) says whether it reaches one
RECURSIVE UpToTerminator(_)
UpToTerminator(b) ==
  IF Len(b) < 8 THEN b
  ELSE IF SubSeq(b, 5, 8) = TagIEND THEN Take(b, 8)
  ELSE Bind(Uint32(Take(b, 4)), LAMBDA n :
         IF n > Len(b) - 8 THEN b
         ELSE Take(b, 12 + n) \o Bind(Drop(b, 12 + n), LAMBDA rest : UpToTerminator(rest)))

\* the payloads of the IDAT chunks of a run of complete chunks
DataOf(cs) ==
  LET ds == SelectSeq(cs, IsIDAT)
  IN  [j \in 1..Len(ds) |-> ds[j].data]

\* C22: when the parser reaches a terminator header it returns success, and
\* its result is the one of the stream cut right after that header: what
\* follows the first terminator is never read (the buffer still holds every
\* byte after the terminator's 4 CRC bytes) and never changes the result; the
\* data payloads returned are those of the IDAT chunks before the terminator,
\* so IDAT chunks placed after it are left out without an error.
C22_StopsAtFirstTerminator ==
  (Stopped /\ TerminatorIn(Drop(caller.stream, SigLen))) =>
    \E s \in {Drop(caller.stream, SigLen)} :
    \E head \in {UpToTerminator(s)} :
      /\ caller.at = "returned"
      /\ caller.err = NoErr
      /\ caller.c.stage = dsSeenIEND
      /\ caller.c.bb = Drop(s, Len(head) + 4)
      /\ caller.pc = fetchPNGChunk(pngHeader \o head).pc
      /\ caller.pc.idats = DataOf(ChunksOf(Take(head, Len(head) - 8)))

\* C22 witness: the parser has returned success from a stream whose
\* terminator lies between the header chunk and a data chunk: the result
\* holds the header and no data, and the data chunk is still in the buffer.
C22_Witness ==
  /\ caller.at = "returned" /\ caller.err = NoErr
  /\ TagsOf(StreamChunks) = <<TagIHDR, TagIEND, TagIDAT>>
  /\ caller.pc.ihdr = <<1, 2>>
  /\ caller.pc.idats = <<>>
  /\ caller.c.bb = MkChunk(TagIDAT, <<10, 11>>)

\* the length of the slice does not fit the 32-bit length field
Oversized(b) == b.len.hi # 0

\* the calls made with an oversized payload
OversizedCalls == { k \in 1..Len(caller.calls) : Oversized(caller.calls[k].b) }

\* the step is a writeChunk call with an oversized payload
OversizedCall ==
  /\ caller.at = "writing"
  /\ caller'.made = caller.made + 1
  /\ caller'.made \in OversizedCalls

\* the signature and the chunks of the calls before the first oversized one
BeforeOversized ==
  LET first == Nth(OversizedCalls, 0)
  IN  pngHeader \o Concat([k \in 1..(first - 1) |->
                              MkChunk(caller.calls[k].name, caller.calls[k].b.v)])

\* C23 as stated: every writeChunk call with an oversized payload writes no
\* byte, records the chunk-too-large error, and that error is what is
\* returned at the end.
C23_TooLargeAlways ==
  /\ [][OversizedCall => (out' = out /\ enc'.err = ErrTooLarge)]_vars
  /\ []((caller.at = "returned" /\ OversizedCalls # {}) => ret = ErrTooLarge)

\* C23 amended: a writeChunk call with an oversized payload writes no byte,
\* neither a truncated length nor a part of the payload; on an encoder that
\* holds no error it records the chunk-too-large error, which every later
\* call keeps and which is returned at the end, after the chunks of the
\* earlier calls and nothing else; on an encoder that already holds the error
\* of a failed Write it is a no-op and that earlier error is returned.
C23_TooLargeRecorded ==
  /\ [][OversizedCall =>
          /\ out' = out
          /\ enc'.err = (IF enc.err = NoErr THEN ErrTooLarge ELSE enc.err)]_vars
  /\ [][enc.err = ErrTooLarge => (out' = out /\ enc'.err = ErrTooLarge)]_vars
  /\ []((caller.at = "returned" /\ OversizedCalls # {}) =>
          /\ ret \in {ErrTooLarge, ErrWrite}
          /\ ret = ErrTooLarge <=> out = BeforeOversized)

\* C23 witness: of three calls the first wrote its chunk, the second had a
\* payload of 2^32 + 3 bytes, the third had a payload that fits; the
\* chunk-too-large error was returned and the output ends after the first
\* chunk.
C23_Witness ==
  /\ caller.fn = "writeChunk" /\ caller.at = "returned"
  /\ Len(caller.calls) = 3 /\ OversizedCalls = {2}
  /\ caller.calls[2].b = SliceOf(1, <<1, 2, 3>>)
  /\ caller.calls[3].b = SliceOf(0, <<1, 2, 3>>)
  /\ ret = ErrTooLarge
  /\ out = pngHeader \o MkChunk(caller.calls[1].name, caller.calls[1].b.v)

\* the step is taken by a per-frame goroutine
WorkerStep == pc = "drain" /\ wpc' # wpc

\* a goroutine is inside the critical section exactly when it holds the mutex
MutexHeld == \A k \in DOMAIN wpc : wpc[k] = "crit" <=> mutex = k

\* whenever EncodeAll is at or past its read of the error slot, every
\* goroutine it started has finished
ReadAfterWorkers ==
  ((pc = "drain" /\ closed) \/ (pc \in {"first", "loop", "returned"} /\ DOMAIN wpc # {})) =>
    (DOMAIN wpc = Frames /\ AllWorkersDone /\ mutex = Free)

\* a goroutine changes nothing of EncodeAll but the error slot, and the
\* channel it sends its result on
WorkerFootprint ==
  WorkerStep =>
    /\ UNCHANGED << a, ret, out, hasFirstPaletted, globalPLTE, globalTRNS,
                    frameDataMap, i, closed >>
    /\ enc' = [enc EXCEPT !.err = enc'.err]

\* the error slot is written by EncodeAll before it starts the goroutines, by
\* a goroutine that holds the mutex and releases it in the same step, or by
\* EncodeAll after every goroutine has finished
ErrSlotAccess ==
  enc'.err # enc.err =>
    \/ pc = "start" /\ DOMAIN wpc = {}
    \/ \E k \in DOMAIN wpc :
          /\ wpc[k] = "crit" /\ mutex = k
          /\ wpc' = [wpc EXCEPT ![k] = "exit"] /\ mutex' = Free
    \/ pc \in {"first", "loop"} /\ AllWorkersDone /\ wpc' = wpc

\* the results collection is written by the drain loop of EncodeAll, never
\* in a step of a goroutine
MapAccess ==
  frameDataMap' # frameDataMap =>
    /\ pc = "drain" /\ wpc' = wpc
    /\ frameDataChan # <<>>
    /\ frameDataMap' = Store(frameDataMap, Head(frameDataChan))

\* C24: the goroutines of the frames share only the error slot (and the
\* channel that carries their results); a goroutine reads or writes the error
\* slot only while it holds the mutex, so never two at a time; the results
\* collection is filled by EncodeAll's drain loop alone; and EncodeAll reads
\* and writes the error slot only before the goroutines start or after all
\* of them have finished.
C24_SharedStateExclusive ==
  /\ []MutexHeld
  /\ []ReadAfterWorkers
  /\ [][WorkerFootprint]_vars
  /\ [][ErrSlotAccess]_vars
  /\ [][MapAccess]_vars

\* C24 witness: both goroutines of a two-frame call have failed; one is in
\* the critical section, about to access the error slot, and the other waits
\* for the mutex; the result of neither is in the results collection.
C24_Witness ==
  /\ pc = "drain" /\ N = 2
  /\ wpc[0] = "lock" /\ wpc[1] = "crit" /\ mutex = 1
  /\ DOMAIN frameDataMap = {}

\* the frames whose goroutine has sent its result
Sent == { frameDataChan[j].index : j \in 1..Len(frameDataChan) }
          \cup { arrived[j] : j \in 1..Len(arrived) }

\* the frames whose goroutine has recorded a failure
Failed == { recorded[j] : j \in 1..Len(recorded) }

\* once the goroutines are started there is exactly one per frame, and the
\* WaitGroup counts those that have not finished
OnePerFrame ==
  pc \in {"drain", "first", "loop"} =>
    /\ DOMAIN wpc = Frames
    /\ wg = Cardinality({ k \in Frames : wpc[k] # "done" })

\* every goroutine sends at most one result, and none when it records a
\* failure; the channel never holds more than its capacity N
AtMostOneSend ==
  /\ Len(frameDataChan) <= N
  /\ Len(frameDataChan) + Len(arrived) = Cardinality(Sent)
  /\ Sent \cap Failed = {}
  /\ \A k \in Sent \cup Failed : k \in DOMAIN wpc /\ wpc[k] \in {"exit", "done"}

\* a goroutine that is at its send finds room in the channel and the channel
\* open
SendNeverBlocks ==
  \A k \in DOMAIN wpc : wpc[k] = "send" => (Len(frameDataChan) < N /\ ~closed)

\* the channel is closed only after every goroutine has finished
ClosedAfterWorkers == closed => (wg = 0 /\ DOMAIN wpc = Frames /\ AllWorkersDone)

\* C25: every call of EncodeAll returns, whatever the interleaving and
\* whether no, some or all goroutines fail: one goroutine is started per
\* frame, each sends at most one result on a channel of capacity N, so that
\* no send blocks, the channel is closed only after every goroutine has
\* finished, and the drain loop ends.
C25_AlwaysReturns ==
  /\ []OnePerFrame
  /\ []AtMostOneSend
  /\ []SendNeverBlocks
  /\ []ClosedAfterWorkers
  /\ [](pc # "crashed")
  /\ <>Returned

\* C25 witness: EncodeAll has returned from a call in which the goroutines
\* of both frames failed and none sent a result.
C25_Witness ==
  /\ Returned /\ N = 2 /\ DOMAIN wpc = {0, 1}
  /\ Failed = {0, 1} /\ Sent = {}
  /\ closed /\ wg = 0

\* the range loop over the channel has ended
AfterFanIn ==
  \/ pc = "drain" /\ closed /\ frameDataChan = <<>>
  \/ pc \in {"first", "loop"}
  \/ Returned /\ DOMAIN wpc # {}

\* the results collection holds the result of every frame under its index and
\* nothing else
AllDelivered ==
  /\ DOMAIN frameDataMap = Frames
  /\ \A k \in Frames : frameDataMap[k] = FrameData(k)

\* C26: a goroutine that has finished has either sent its result or gone
\* through the failure path, which leaves the error slot non-empty, never
\* both and never neither; the results
\* collection never holds an index outside 0..N-1; after fan-in it holds
\* exactly the delivered results, and when the error slot is empty at the
\* error check, or the check has been passed, it holds one entry for every
\* index 0..N-1; the missing-frame-data error is never returned.
C26_ResultsComplete ==
  /\ \A k \in DOMAIN wpc : wpc[k] = "done" => (k \in Sent <=> k \notin Failed)
  /\ DOMAIN frameDataMap \subseteq Frames
  /\ AfterFanIn =>
       /\ DOMAIN frameDataMap = Sent
       /\ Sent \cup Failed = Frames
       /\ Sent \cap Failed = {}
  /\ (AfterFanIn /\ (enc.err = NoErr \/ pc \in {"first", "loop"})) => AllDelivered
  /\ Failed # {} => enc.err # NoErr
  /\ Returned => ret.kind # "missing"

\* C26 witness: the drain loop of a two-frame call has ended with an empty
\* error slot, and the results collection holds the results of frames 0 and 1,
\* received in the order 1, 0.
C26_Witness ==
  /\ pc = "first" /\ N = 2 /\ enc.err = NoErr
  /\ arrived = <<1, 0>>
  /\ DOMAIN frameDataMap = {0, 1}
  /\ frameDataMap[0].index = 0 /\ frameDataMap[1].index = 1

TypeOK == pc \in {"idle", "start", "drain", "first", "loop", "returned", "crashed"}
====
